---- MODULE Spec2Model ----
(***************************************************************************)
(* Verification model of the XDMA scatter-gather engine drivers:           *)
(*   - drivers/fpga/xrt/lib/xleaf/xdma.c  (channel pool, synchronous       *)
(*     xdma_request_submit, descriptor ring of a channel)                  *)
(*   - drivers/dma/xilinx/xdma.c          (dmaengine driver: chain builder *)
(*     xdma_xfer_start, block linking, completion interrupt, tasklet)      *)
(* and of the indirect context programming of the AMD QDMA driver:         *)
(*   - drivers/dma/amdmqdma               (qdma_cpm5_indirect_reg_write,   *)
(*     qdma_cpm5_fmap_context_write, hw_monitor_reg, qdma_init)            *)
(*                                                                         *)
(* Sizes that the hardware fixes (descriptors per block, blocks per        *)
(* channel, maximal descriptor length, register word width) are scaled     *)
(* down; each scaled size is a named definition below.                     *)
(***************************************************************************)
EXTENDS Integers, Sequences, FiniteSets, TLC

(***************************************************************************)
(* Sizes.  The first group are the scaled hardware sizes, the second group *)
(* bound the inputs of the model.                                          *)
(***************************************************************************)
\* log2 of the descriptors per block (5 in xdma-impl.h, so 32 per block)
XDMA_DESC_BLOCK_SHIFT == 1
\* descriptor blocks of one channel ring of the xleaf driver (128 in xdma.c)
XRT_DESC_BLOCK_NUM == 2
\* descriptor blocks of one dmaengine channel (BIT(7) in xdma-regs.h)
XDMA_DESC_BLOCK_NUM == 2
\* maximal byte length of one descriptor (BIT(28) - PAGE_SIZE in the source)
XDMA_DESC_BLEN_MAX == 2
\* bits of one register word (32 in the source)
AddrBits == 4
\* longest scatter/gather list drawn as an input
MaxSegs == 2
\* channels discovered per direction
NumH2C == 2
NumC2H == 1
\* concurrent callers of acquire/release
PoolThreads == 2
\* register accesses that may fail in one run
MaxRegFaults == 1

XDMA_DESC_ADJACENT == 2 ^ XDMA_DESC_BLOCK_SHIFT
XRT_DESC_NUM == XRT_DESC_BLOCK_NUM * XDMA_DESC_ADJACENT
XDMA_DESC_NUM == XDMA_DESC_BLOCK_NUM * XDMA_DESC_ADJACENT
AddrWord == 2 ^ AddrBits
\* segment lengths drawn as inputs: empty, one byte, one byte more than a
\* descriptor holds, and what every descriptor of a channel holds together
SegLens == {0, 1, XDMA_DESC_BLEN_MAX + 1, XDMA_DESC_NUM * XDMA_DESC_BLEN_MAX}

\* program constants
XDMA_DESC_MAGIC == 44363
XDMA_DF_NUM == 8
XDMA_DF_SZ == 4
XDMA_DESC_SIZE == XDMA_DF_NUM * XDMA_DF_SZ
XDMA_DESC_BLOCK_SIZE == XDMA_DESC_SIZE * XDMA_DESC_ADJACENT
EIO == 5
XDMA_SUBSYSTEM_ID == 508
EINVAL == 22
ENOENT == 2
ERESTARTSYS == 512

\* descriptor control flags
XDMA_DESC_STOPPED == "STOPPED"
XDMA_DESC_COMPLETED == "COMPLETED"

\* transfer directions (DMA_TO_DEVICE / DMA_FROM_DEVICE, DMA_MEM_TO_DEV / DMA_DEV_TO_MEM)
H2C == "H2C"
C2H == "C2H"
Dirs == {H2C, C2H}

\* the NULL scatterlist pointer; a non-NULL pointer is the index of its segment
NULL == 0

\* bus address of the descriptor memory of a channel, and of the host buffers
DescBase == 1024
HostBase == 64
HostStride == 2 * XDMA_DESC_NUM * XDMA_DESC_BLEN_MAX
EndpointBase == 40

(***************************************************************************)
(* 64-bit addresses are stored as two register words.                      *)
(***************************************************************************)
XDMA_DMA_L(addr) == addr % AddrWord
XDMA_DMA_H(addr) == addr \div AddrWord
Join64(lo, hi) == hi * AddrWord + lo

\* XRT_DESC_CONTROL / XDMA_DESC_CONTROL: magic in bits 16-31, (adjacent - 1)
\* in the adjacency field, flag bits 0 and 1
XRT_DESC_CONTROL(adjacent, flag) ==
    [magic |-> XDMA_DESC_MAGIC, adj |-> adjacent - 1, flags |-> flag]

ZeroControl == [magic |-> 0, adj |-> 0, flags |-> {}]

ZeroDesc ==
    [control |-> ZeroControl, bytes |-> 0,
     src_addr_lo |-> 0, src_addr_hi |-> 0,
     dst_addr_lo |-> 0, dst_addr_hi |-> 0,
     next_lo |-> 0, next_hi |-> 0]

(***************************************************************************)
(* Scatter/gather lists: a sequence of segments [addr, len].               *)
(***************************************************************************)
Seg(k, l) == [addr |-> HostBase + HostStride * k, len |-> l]

RECURSIVE LenSeqs(_)
LenSeqs(n) ==
    IF n = 0 THEN {<< >>}
    ELSE LET shorter == LenSeqs(n - 1)
         IN  shorter \cup
             {Append(s, l) : s \in {x \in shorter : Len(x) = n - 1}, l \in SegLens}

SgLists == {[k \in 1..Len(ls) |-> Seg(k, ls[k])] : ls \in LenSeqs(MaxSegs)}

sg_next(sgl, sg) == IF sg = NULL \/ sg >= Len(sgl) THEN NULL ELSE sg + 1

RECURSIVE SumLen(_)
SumLen(sgl) == IF Len(sgl) = 0 THEN 0 ELSE sgl[1].len + SumLen(Tail(sgl))

(***************************************************************************)
(* State.                                                                  *)
(*   chan_info  xrt_xdma.h2c / .c2h: start_index, channel_num, bitmap of   *)
(*              free channels, count of the semaphore                      *)
(*   channels   xrt_xdma.channels[]: type, descriptor ring, submitted      *)
(*              descriptor count, completion (its done counter); hw_bytes  *)
(*              is a history field: bytes the engine completed for the     *)
(*              current holder                                             *)
(*   hw         the engine registers of each channel                       *)
(*   th         the callers: position in xdma_acquire_channel,             *)
(*              xdma_request_submit, xdma_release_channel and their locals *)
(*   reg_faults register accesses that may still fail                      *)
(*   xdma_chan, xdma_regs, xdma_trace   the dmaengine channel (below)      *)
(*   qdev, qdma_hw, qdma_th, qdma_log   the amdmqdma device (below)         *)
(*   xdma_vec   a call of xdma_set_vector_reg: arguments, return value and *)
(*              the registers it wrote                                     *)
(*   xg         struct xrt_group: its mutex, leaves_created, the callers   *)
(*   spool      struct xrt_subdev_pool: xsp_lock, xsp_closing, the subdevs *)
(*              with their holders, the callers                            *)
(***************************************************************************)
VARIABLES chan_info, channels, hw, th, reg_faults, xdma_chan, xdma_regs, xdma_trace,
          qdev, qdma_hw, qdma_th, qdma_log, xdma_init, xdma_ctx,
          xdma_vec, xg, spool

xleafVars == <<chan_info, channels, hw, th, reg_faults>>
dmaVars == <<xdma_chan, xdma_regs, xdma_trace>>
qdmaVars == <<qdev, qdma_hw, qdma_th, qdma_log>>
libVars == <<xdma_vec, xg, spool>>
vars == <<chan_info, channels, hw, th, reg_faults, xdma_chan, xdma_regs, xdma_trace,
          qdev, qdma_hw, qdma_th, qdma_log, xdma_init, xdma_ctx, xdma_vec, xg, spool>>

NumChannels == NumH2C + NumC2H
ChanIdx == 0 .. (NumChannels - 1)

\* channel->desc_dma_addr of channel index
desc_dma_addr(index) == DescBase + index * XRT_DESC_NUM * XDMA_DESC_SIZE

(***************************************************************************)
(* xdma_alloc_channel_resource: the zeroed ring, every descriptor with     *)
(* adjacency 1, the last descriptor of each block with the full block      *)
(* adjacency and the bus address of the next block.                        *)
(***************************************************************************)
xdma_alloc_channel_resource(index) ==
    [d \in 0 .. (XRT_DESC_NUM - 1) |->
        IF d % XDMA_DESC_ADJACENT = XDMA_DESC_ADJACENT - 1
        THEN LET dma_addr == desc_dma_addr(index) +
                             ((d \div XDMA_DESC_ADJACENT) + 1) * XDMA_DESC_SIZE * XDMA_DESC_ADJACENT
             IN  [ZeroDesc EXCEPT !.control = XRT_DESC_CONTROL(XDMA_DESC_ADJACENT, {}),
                                  !.next_lo = XDMA_DMA_L(dma_addr),
                                  !.next_hi = XDMA_DMA_H(dma_addr)]
        ELSE [ZeroDesc EXCEPT !.control = XRT_DESC_CONTROL(1, {})]]

\* xdma_desc_set of the xleaf driver: length and the two addresses
xleaf_desc_set(type, desc, addr, endpoint_addr, len) ==
    IF type = H2C
    THEN [desc EXCEPT !.bytes = len,
                      !.src_addr_lo = XDMA_DMA_L(addr), !.src_addr_hi = XDMA_DMA_H(addr),
                      !.dst_addr_lo = XDMA_DMA_L(endpoint_addr),
                      !.dst_addr_hi = XDMA_DMA_H(endpoint_addr)]
    ELSE [desc EXCEPT !.bytes = len,
                      !.src_addr_lo = XDMA_DMA_L(endpoint_addr),
                      !.src_addr_hi = XDMA_DMA_H(endpoint_addr),
                      !.dst_addr_lo = XDMA_DMA_L(addr), !.dst_addr_hi = XDMA_DMA_H(addr)]

\* desc_num & (XDMA_DESC_ADJACENT - 1), XDMA_DESC_ADJACENT a power of two
AdjacentOf(desc_num) == desc_num % XDMA_DESC_ADJACENT

\* index of block_desc in xdma_desc_set_last / xdma_desc_clear_last, -1 for NULL
BlockDescOf(desc_num) ==
    IF desc_num > XDMA_DESC_ADJACENT /\ AdjacentOf(desc_num) > 0
    THEN (desc_num - AdjacentOf(desc_num)) - 1
    ELSE -1

xdma_desc_set_last(descs, desc_num) ==
    LET block_desc == BlockDescOf(desc_num)
        last_desc == desc_num - 1
        d1 == IF block_desc >= 0
              THEN [descs EXCEPT ![block_desc].control =
                                    XRT_DESC_CONTROL(AdjacentOf(desc_num), {})]
              ELSE descs
    IN  [d1 EXCEPT ![last_desc].control.flags =
                      @ \cup {XDMA_DESC_STOPPED, XDMA_DESC_COMPLETED}]

\* a clear that takes the flags off and leaves the block-end descriptor
xdma_desc_clear_last_flags_only(descs, desc_num) ==
    [descs EXCEPT ![desc_num - 1].control.flags =
                      @ \ {XDMA_DESC_STOPPED, XDMA_DESC_COMPLETED}]
xdma_desc_clear_last(descs, desc_num) ==
    LET block_desc == BlockDescOf(desc_num)
        last_desc == desc_num - 1
        d1 == IF block_desc >= 0
              THEN [descs EXCEPT ![block_desc].control =
                                    XRT_DESC_CONTROL(XDMA_DESC_ADJACENT, {})]
              ELSE descs
    IN  [d1 EXCEPT ![last_desc].control.flags =
                      @ \ {XDMA_DESC_STOPPED, XDMA_DESC_COMPLETED}]

(***************************************************************************)
(* The descriptor loop of xrt_xdma_start.  st = [i, sg, sg_off, descs,     *)
(* endpoint_addr, total]; sgl is the list sg points into.                  *)
(***************************************************************************)
RECURSIVE xrt_fill(_, _, _)
xrt_fill(type, sgl, st) ==
    IF st.i < XRT_DESC_NUM /\ st.sg # NULL
    THEN LET addr == sgl[st.sg].addr + st.sg_off
             rest == sgl[st.sg].len - st.sg_off
             split == XDMA_DESC_BLEN_MAX < rest
             len == IF split THEN XDMA_DESC_BLEN_MAX ELSE rest
         IN  xrt_fill(type, sgl,
                 [i |-> st.i + 1,
                  sg |-> IF split THEN st.sg ELSE sg_next(sgl, st.sg),
                  sg_off |-> IF split THEN st.sg_off + XDMA_DESC_BLEN_MAX ELSE 0,
                  descs |-> [st.descs EXCEPT ![st.i] =
                                xleaf_desc_set(type, @, addr, st.endpoint_addr, len)],
                  endpoint_addr |-> st.endpoint_addr + len,
                  total |-> st.total + len])
    ELSE st

\* value written to the adjacency register by xrt_xdma_start
xrt_adjacent_reg(i) == IF i >= XDMA_DESC_ADJACENT THEN XDMA_DESC_ADJACENT - 1 ELSE i - 1

(***************************************************************************)
(* Channel pool: semaphore and bitmap primitives.                          *)
(***************************************************************************)
test_bit(nr, bitmap) == nr \in bitmap
\* a test that leaves the bit set
test_and_clear_bit_no_clear(nr, bitmap) == bitmap
test_and_clear_bit(nr, bitmap) == bitmap \ {nr}
\* a release that leaves the bit clear
set_bit_lost(nr, bitmap) == bitmap
set_bit(nr, bitmap) == bitmap \cup {nr}
\* a release that keeps the permit
up_lost(sem) == sem
up(sem) == sem + 1
\* a down that takes no permit
down_no_permit(sem) == sem
down(sem) == sem - 1
sema_init(n) == n

\* the state left by xdma_init_channels when the H2C windows carry the ids
\* 0..NumH2C-1 and the C2H windows the ids 0..NumC2H-1
xdma_init_channels ==
    [d \in Dirs |->
        IF d = H2C
        THEN [start_index |-> 0, channel_num |-> NumH2C,
              channel_bitmap |-> 0 .. (NumH2C - 1), channel_sem |-> sema_init(NumH2C)]
        ELSE [start_index |-> NumH2C, channel_num |-> NumC2H,
              channel_bitmap |-> 0 .. (NumC2H - 1), channel_sem |-> sema_init(NumC2H)]]

\* xdma_probe_channel: the channel struct of index
xdma_probe_channel(index) ==
    [type |-> IF index < NumH2C THEN H2C ELSE C2H,
     descs |-> xdma_alloc_channel_resource(index),
     submitted_desc_count |-> 0,
     req_compl |-> 0,
     hw_bytes |-> 0]

HwReset == [run |-> FALSE, adj |-> 0, compl_count |-> 0, fired |-> FALSE]

NoReq == [direction |-> H2C, endpoint_addr |-> 0, sgl |-> << >>]

Requests == [direction : Dirs, endpoint_addr : {EndpointBase}, sgl : SgLists]

IdleThread ==
    [pc |-> "idle", req |-> NoReq, dir |-> H2C, sg |-> NULL, sg_off |-> 0,
     done_bytes |-> 0, ret |-> 0, val |-> 0, channel_index |-> -1, ci |-> 0,
     result |-> 0,
     g_timeout |-> FALSE, g_mismatch |-> FALSE, g_w1c_failed |-> FALSE,
     g_passes |-> 0, g_prev_hw |-> 0, g_acquired |-> FALSE, g_channel |-> -1]

(***************************************************************************)
(* Channel discovery: xdma_init_channels probes XDMA_MAX_CHANNEL_NUM       *)
(* register windows with xdma_probe_channel.  A window is given by the     *)
(* value of its identifier register.                                       *)
(***************************************************************************)
\* number of probed windows and of entries of xdma->channels (scaled)
XDMA_MAX_CHANNEL_NUM == NumChannels

XDMA_TARGET_H2C_CHANNEL == H2C
XDMA_TARGET_C2H_CHANNEL == C2H

\* the fields of an identifier register value
XDMA_GET_SUBSYSTEM_ID(identifier) == identifier.subsystem
XDMA_GET_CHANNEL_ID(identifier) == identifier.chan_id
XDMA_GET_CHANNEL_TARGET(identifier) == identifier.target
XDMA_IS_STREAM(identifier) == identifier.stream

\* identifier values: a window of another subsystem, a stream channel, and
\* the memory-mapped channels of both directions
Identifiers ==
    {[subsystem |-> 0, stream |-> FALSE, target |-> H2C, chan_id |-> 0],
     [subsystem |-> XDMA_SUBSYSTEM_ID, stream |-> TRUE, target |-> H2C, chan_id |-> 0]}
    \cup [subsystem : {XDMA_SUBSYSTEM_ID}, stream : {FALSE}, target : Dirs,
          chan_id : 0 .. (NumH2C - 1)]

\* the identifiers of the windows, one per probed window
WindowIds == [1 .. XDMA_MAX_CHANNEL_NUM -> Identifiers]

\* the windows that give the state xdma_init_channels above
OrderedWindows ==
    [w \in 1 .. XDMA_MAX_CHANNEL_NUM |->
        [subsystem |-> XDMA_SUBSYSTEM_ID, stream |-> FALSE,
         target |-> IF w <= NumH2C THEN H2C ELSE C2H,
         chan_id |-> IF w <= NumH2C THEN w - 1 ELSE w - 1 - NumH2C]]

\* struct xrt_xdma after kzalloc
ZeroChanInfo ==
    [d \in Dirs |-> [start_index |-> 0, channel_num |-> 0,
                     channel_bitmap |-> {}, channel_sem |-> 0]]
ZeroChannel(index) ==
    [type |-> "none", descs |-> xdma_alloc_channel_resource(index),
     submitted_desc_count |-> 0, req_compl |-> 0, hw_bytes |-> 0]

\* the slot that xdma_probe_channel fills: the channels are stored in the
\* order of their discovery
probe_index(info) == info[H2C].channel_num + info[C2H].channel_num

\* xdma_probe_channel on a window with the given identifier; st is
\* [info, chans]; the set-up of a counted channel is taken to succeed
xdma_probe_window(st, identifier) ==
    IF XDMA_GET_SUBSYSTEM_ID(identifier) # XDMA_SUBSYSTEM_ID THEN st
    ELSE IF XDMA_IS_STREAM(identifier) THEN st
    ELSE LET index == probe_index(st.info)
             type == XDMA_GET_CHANNEL_TARGET(identifier)
             chan_id == XDMA_GET_CHANNEL_ID(identifier)
         IN  IF type \in {XDMA_TARGET_H2C_CHANNEL, XDMA_TARGET_C2H_CHANNEL}
             THEN [info |-> [st.info EXCEPT
                                ![type].channel_num = @ + 1,
                                ![type].channel_bitmap = set_bit(chan_id, @)],
                   chans |-> [st.chans EXCEPT ![index].type = type]]
             ELSE st

\* the loop of xdma_init_channels over the windows i .. XDMA_MAX_CHANNEL_NUM
RECURSIVE probe_windows(_, _, _)
probe_windows(st, ids, i) ==
    IF i > XDMA_MAX_CHANNEL_NUM THEN st
    ELSE probe_windows(xdma_probe_window(st, ids[i]), ids, i + 1)

\* values that the local variable ret of xdma_init_channels, which has no
\* initializer, can hold at the label failed
UninitRets == {0 - EINVAL, 0, 1}

\* xdma_init_channels: [info, chans, ret]; irq_fail is a failed write of an
\* interrupt vector register, uninit the content of ret before its first
\* assignment
init_channels(ids, irq_fail, uninit) ==
    LET st == probe_windows([info |-> ZeroChanInfo,
                             chans |-> [c \in ChanIdx |-> ZeroChannel(c)]], ids, 1)
    IN  IF st.info[H2C].channel_num = 0 \/ st.info[C2H].channel_num = 0
        THEN [info |-> st.info, chans |-> st.chans, ret |-> uninit]
        ELSE IF irq_fail
        THEN [info |-> st.info, chans |-> st.chans, ret |-> 0 - EIO]
        ELSE [info |-> [d \in Dirs |->
                          [st.info[d] EXCEPT
                              !.channel_sem = sema_init(st.info[d].channel_num),
                              !.start_index = IF d = C2H
                                              THEN st.info[H2C].channel_num ELSE @]],
              chans |-> st.chans, ret |-> 0]

(***************************************************************************)
(* The resources of a channel: descs is the pointer channel->descs (null,  *)
(* allocated, or freed: still set, its memory given back), frees counts    *)
(* the calls of dma_free_coherent on it, regs are the channel registers    *)
(* programmed, irq tells that the handler is registered, compl that        *)
(* init_completion has run.                                                *)
(***************************************************************************)
NoResource == [descs |-> "null", frees |-> 0, regs |-> {}, irq |-> FALSE, compl |-> FALSE]

\* the steps of the set-up in xdma_probe_channel that can fail, in order
SetupSteps == <<"alloc", "control_w1c", "interrupt_en", "desc_lo", "desc_hi", "irq">>
SetupRegs == {"control_w1c", "interrupt_en", "desc_lo", "desc_hi"}
StepOf(fail) == CHOOSE k \in 1 .. Len(SetupSteps) : SetupSteps[k] = fail

\* the steps of a window are all taken / one of them fails
SetupOutcomes == {"none"} \cup {SetupSteps[k] : k \in 1 .. Len(SetupSteps)}

\* if (!channel->descs || !channel->desc_dma_addr) return; dma_free_coherent
xdma_free_channel_resource(r) ==
    IF r.descs = "null" THEN r ELSE [r EXCEPT !.descs = "freed", !.frees = @ + 1]

\* the set-up of a counted channel in xdma_probe_channel, from
\* xdma_alloc_channel_resource on; fail is the step that fails
channel_setup(fail) ==
    IF fail = "alloc" THEN NoResource
    ELSE LET alloc == [NoResource EXCEPT !.descs = "allocated"]
         IN  IF fail = "none"
             THEN [alloc EXCEPT !.regs = SetupRegs, !.irq = TRUE, !.compl = TRUE]
             ELSE xdma_free_channel_resource(
                      [alloc EXCEPT !.regs = {SetupSteps[k] : k \in 2 .. (StepOf(fail) - 1)}
                                                \cap SetupRegs])

\* the resources after the loop of xdma_init_channels over the windows
\* i .. XDMA_MAX_CHANNEL_NUM; st follows the discovery
RECURSIVE setup_windows(_, _, _, _, _)
setup_windows(st, res, ids, fails, i) ==
    IF i > XDMA_MAX_CHANNEL_NUM THEN res
    ELSE LET index == probe_index(st.info)
             st1 == xdma_probe_window(st, ids[i])
         IN  setup_windows(st1,
                           IF probe_index(st1.info) > index
                           THEN [res EXCEPT ![index] = channel_setup(fails[i])]
                           ELSE res,
                           ids, fails, i + 1)

\* xdma_cleanup_channel: interrupt enable 0, handler unregistered, memory freed
xdma_cleanup_channel(r) ==
    xdma_free_channel_resource([r EXCEPT !.regs = @ \ {"interrupt_en"}, !.irq = FALSE])

\* xdma_cleanup_channel_all: every counted channel
xdma_cleanup_channel_all(info, res) ==
    [c \in DOMAIN res |-> IF c < probe_index(info) THEN xdma_cleanup_channel(res[c])
                          ELSE res[c]]

\* no step fails
NoSetupFail == [w \in 1 .. XDMA_MAX_CHANNEL_NUM |-> "none"]

\* the unprobed device
InitUnprobed(threads) ==
    /\ chan_info = ZeroChanInfo
    /\ channels = [c \in ChanIdx |-> ZeroChannel(c)]
    /\ hw = [c \in ChanIdx |-> HwReset]
    /\ th = [t \in threads |-> IdleThread]
    /\ reg_faults = MaxRegFaults
    /\ xdma_init = [done |-> FALSE, ret |-> 0, ids |-> << >>,
                    res |-> [c \in ChanIdx |-> NoResource], removed |-> FALSE]

\* xrt_xdma_probe calls xdma_init_channels
InitChannels(ids, fails, irq_fail, uninit) ==
    /\ ~xdma_init.done
    /\ LET r == init_channels(ids, irq_fail, uninit)
           res == setup_windows([info |-> ZeroChanInfo,
                                 chans |-> [c \in ChanIdx |-> ZeroChannel(c)]],
                                xdma_init.res, ids, fails, 1)
           failed == \/ r.info[H2C].channel_num = 0
                     \/ r.info[C2H].channel_num = 0
                     \/ irq_fail
       IN  /\ chan_info' = r.info
           /\ channels' = r.chans
           /\ xdma_init' = [done |-> TRUE, ret |-> r.ret, ids |-> ids,
                            res |-> IF failed THEN xdma_cleanup_channel_all(r.info, res)
                                    ELSE res,
                            removed |-> FALSE]
    /\ UNCHANGED <<hw, th, reg_faults>>
    /\ UNCHANGED <<dmaVars, qdmaVars, xdma_ctx, libVars>>

\* xrt_xdma_probe succeeded: the leaf answers acquire and release calls
Probed == xdma_init.done /\ xdma_init.ret = 0

\* xrt_xdma_remove, called for a device whose probe succeeded
Remove ==
    /\ Probed
    /\ ~xdma_init.removed
    /\ \A t \in DOMAIN th : th[t].pc = "idle"
    /\ xdma_init' = [xdma_init EXCEPT
                        !.res = xdma_cleanup_channel_all(chan_info, @),
                        !.removed = TRUE]
    /\ UNCHANGED xleafVars
    /\ UNCHANGED <<dmaVars, qdmaVars, xdma_ctx, libVars>>

InitXleaf(threads) ==
    /\ chan_info = xdma_init_channels
    /\ channels = [c \in ChanIdx |-> xdma_probe_channel(c)]
    /\ hw = [c \in ChanIdx |-> HwReset]
    /\ th = [t \in threads |-> IdleThread]
    /\ reg_faults = MaxRegFaults
    /\ xdma_init = [done |-> TRUE, ret |-> 0, ids |-> OrderedWindows,
                    res |-> [c \in ChanIdx |-> channel_setup("none")],
                    removed |-> FALSE]

(***************************************************************************)
(* xdma_acquire_channel, one action per atomic step.                       *)
(***************************************************************************)
\* a caller enters xdma_acquire_channel(dir)
AcquireCall(t, d) ==
    /\ th[t].pc = "idle"
    /\ th' = [th EXCEPT ![t] = [IdleThread EXCEPT !.pc = "down", !.dir = d]]
    /\ UNCHANGED <<chan_info, channels, hw, reg_faults>>
    /\ UNCHANGED <<dmaVars, qdmaVars, xdma_init, xdma_ctx, libVars>>

\* down_killable takes a permit
Down(t) ==
    /\ th[t].pc = "down"
    /\ chan_info[th[t].dir].channel_sem > 0
    /\ chan_info' = [chan_info EXCEPT ![th[t].dir].channel_sem = down(@)]
    /\ th' = [th EXCEPT ![t].pc = "scan", ![t].ci = 0]
    /\ UNCHANGED <<channels, hw, reg_faults>>
    /\ UNCHANGED <<dmaVars, qdmaVars, xdma_init, xdma_ctx, libVars>>

\* down_killable is interrupted by a fatal signal while it waits
DownKilled(t, back) ==
    /\ th[t].pc = "down"
    /\ chan_info[th[t].dir].channel_sem = 0
    /\ th' = [th EXCEPT ![t].pc = back, ![t].result = -ERESTARTSYS]
    /\ UNCHANGED <<chan_info, channels, hw, reg_faults>>
    /\ UNCHANGED <<dmaVars, qdmaVars, xdma_init, xdma_ctx, libVars>>

\* one round of the for loop: test_and_clear_bit(channel_index), or the
\* exit of the loop with up() and -ENOENT.  after: where the caller goes on
\* with the channel, back: where it goes on after the call has returned
Scan(t, after, back) ==
    LET ci == th[t].ci
        info == chan_info[th[t].dir]
    IN  /\ th[t].pc = "scan"
        /\ IF ci < info.channel_num
           THEN IF test_bit(ci, info.channel_bitmap)
                THEN /\ chan_info' = [chan_info EXCEPT ![th[t].dir].channel_bitmap =
                                         test_and_clear_bit(ci, @)]
                     /\ th' = [th EXCEPT ![t].pc = after,
                                         ![t].channel_index = ci + info.start_index,
                                         ![t].g_acquired = TRUE,
                                         ![t].g_channel = ci + info.start_index]
                     /\ channels' = [channels EXCEPT ![ci + info.start_index].hw_bytes = 0]
                ELSE /\ th' = [th EXCEPT ![t].ci = ci + 1]
                     /\ UNCHANGED <<chan_info, channels>>
           ELSE /\ chan_info' = [chan_info EXCEPT ![th[t].dir].channel_sem = up(@)]
                /\ th' = [th EXCEPT ![t].pc = back, ![t].result = -ENOENT]
                /\ UNCHANGED channels
        /\ UNCHANGED <<hw, reg_faults>>
        /\ UNCHANGED <<dmaVars, qdmaVars, xdma_init, xdma_ctx, libVars>>

(***************************************************************************)
(* xdma_release_channel: set_bit, then up.                                 *)
(***************************************************************************)
ReleaseCall(t) ==
    /\ th[t].pc = "held"
    /\ th' = [th EXCEPT ![t].pc = "release"]
    /\ UNCHANGED <<chan_info, channels, hw, reg_faults>>
    /\ UNCHANGED <<dmaVars, qdmaVars, xdma_init, xdma_ctx, libVars>>

ReleaseSetBit(t) ==
    LET info == chan_info[th[t].dir]
    IN  /\ th[t].pc = "release"
        /\ chan_info' = [chan_info EXCEPT ![th[t].dir].channel_bitmap =
                            set_bit(th[t].channel_index - info.start_index, @)]
        /\ th' = [th EXCEPT ![t].pc = "up"]
        /\ UNCHANGED <<channels, hw, reg_faults>>
        /\ UNCHANGED <<dmaVars, qdmaVars, xdma_init, xdma_ctx, libVars>>

\* up(), and the caller returns (xdma_request_submit returns ret)
ReleaseUp(t, back) ==
    /\ th[t].pc = "up"
    /\ chan_info' = [chan_info EXCEPT ![th[t].dir].channel_sem = up(@)]
    /\ th' = [th EXCEPT ![t].pc = back, ![t].result = th[t].ret,
                        ![t].channel_index = -1]
    /\ UNCHANGED <<channels, hw, reg_faults>>
    /\ UNCHANGED <<dmaVars, qdmaVars, xdma_init, xdma_ctx, libVars>>

(***************************************************************************)
(* xdma_request_submit.                                                    *)
(***************************************************************************)
\* entry: the empty table is refused, otherwise xdma_acquire_channel is entered
Submit(t, r) ==
    /\ th[t].pc = "idle"
    /\ IF Len(r.sgl) = 0
       THEN th' = [th EXCEPT ![t] = [IdleThread EXCEPT !.pc = "done", !.req = r,
                                                      !.dir = r.direction,
                                                      !.result = -EINVAL]]
       ELSE th' = [th EXCEPT ![t] = [IdleThread EXCEPT !.pc = "down", !.req = r,
                                                      !.dir = r.direction, !.sg = 1]]
    /\ UNCHANGED <<chan_info, channels, hw, reg_faults>>
    /\ UNCHANGED <<dmaVars, qdmaVars, xdma_init, xdma_ctx, libVars>>

\* bytes of the first n descriptors of a ring
RECURSIVE BytesOf(_, _)
BytesOf(descs, n) == IF n = 0 THEN 0 ELSE descs[n - 1].bytes + BytesOf(descs, n - 1)

\* a write of XDMA_CTRL_START to the control register: the engine starts on
\* the rising edge of the RUN bit
HwStart(h, adjacent) ==
    IF h.run THEN [h EXCEPT !.adj = adjacent]
    ELSE [run |-> TRUE, adj |-> adjacent, compl_count |-> 0, fired |-> FALSE]

\* a write of XDMA_CTRL_RUN_STOP to the control W1C register
HwStop(h) == [h EXCEPT !.run = FALSE]

\* one call of xrt_xdma_start from the submit loop.  fail = 0: every register
\* write succeeds; fail = 1, 2, 3: the write of the interrupt enable, of the
\* adjacency, of the control register fails and its error code is returned
\* through the u64 result.
Start(t, fail) ==
    LET c == th[t].channel_index
        ch == channels[c]
        st == xrt_fill(ch.type, th[t].req.sgl,
                       [i |-> 0, sg |-> th[t].sg, sg_off |-> th[t].sg_off,
                        descs |-> ch.descs,
                        endpoint_addr |-> th[t].req.endpoint_addr + th[t].done_bytes,
                        total |-> 0])
        r == IF fail = 0 THEN st.total ELSE -EIO
    IN  /\ th[t].pc = "start"
        /\ fail > 0 => reg_faults > 0
        /\ reg_faults' = IF fail > 0 THEN reg_faults - 1 ELSE reg_faults
        /\ channels' = [channels EXCEPT ![c].descs = xdma_desc_set_last(st.descs, st.i),
                                        ![c].submitted_desc_count = st.i]
        /\ hw' = IF fail = 0
                 THEN [hw EXCEPT ![c] = HwStart(@, xrt_adjacent_reg(st.i))]
                 ELSE IF fail = 3
                      THEN [hw EXCEPT ![c].adj = xrt_adjacent_reg(st.i)]
                      ELSE hw
        /\ th' = [th EXCEPT ![t].pc = "wait", ![t].sg = st.sg, ![t].sg_off = st.sg_off,
                            ![t].done_bytes = @ + r,
                            ![t].g_passes = @ + 1,
                            ![t].g_prev_hw = ch.hw_bytes]
        /\ UNCHANGED chan_info
        /\ UNCHANGED <<dmaVars, qdmaVars, xdma_init, xdma_ctx, libVars>>

\* wait_for_completion_timeout returns because the completion was signalled
WaitDone(t) ==
    LET c == th[t].channel_index
    IN  /\ th[t].pc = "wait"
        /\ channels[c].req_compl > 0
        /\ channels' = [channels EXCEPT ![c].req_compl = @ - 1]
        /\ th' = [th EXCEPT ![t].pc = "count"]
        /\ UNCHANGED <<chan_info, hw, reg_faults>>
        /\ UNCHANGED <<dmaVars, qdmaVars, xdma_init, xdma_ctx, libVars>>

\* wait_for_completion_timeout expires
WaitTimeout(t) ==
    LET c == th[t].channel_index
    IN  /\ th[t].pc = "wait"
        /\ channels[c].req_compl = 0
        /\ th' = [th EXCEPT ![t].pc = "count", ![t].ret = -EIO, ![t].g_timeout = TRUE]
        /\ UNCHANGED <<chan_info, channels, hw, reg_faults>>
        /\ UNCHANGED <<dmaVars, qdmaVars, xdma_init, xdma_ctx, libVars>>

\* the result of the loop body's read of the completed-descriptor count and
\* of the comparison that follows: ret after line 516
count_ret(read_ret, val, submitted) ==
    IF read_ret # 0 \/ val # submitted THEN -EINVAL ELSE read_ret

\* regmap_read of XDMA_CHANNEL_COMPL_COUNT and the comparison with
\* submitted_desc_count
ReadCount(t, fail) ==
    LET c == th[t].channel_index
        val == IF fail THEN th[t].val ELSE hw[c].compl_count
        rr == IF fail THEN -EIO ELSE 0
    IN  /\ th[t].pc = "count"
        /\ fail => reg_faults > 0
        /\ reg_faults' = IF fail THEN reg_faults - 1 ELSE reg_faults
        /\ th' = [th EXCEPT ![t].pc = "passend", ![t].val = val,
                            ![t].ret = count_ret(rr, val, channels[c].submitted_desc_count),
                            ![t].g_mismatch =
                                @ \/ (~fail /\ val # channels[c].submitted_desc_count)]
        /\ UNCHANGED <<chan_info, channels, hw>>
        /\ UNCHANGED <<dmaVars, qdmaVars, xdma_init, xdma_ctx, libVars>>

\* ret at the end of the loop body: the result of the last register access
passend_ret(ret, status_ret, w1c_ret) == w1c_ret

\* the rest of the loop body: xdma_desc_clear_last, the read of the status
\* register, the write that clears RUN, and the loop test
PassEnd(t, fails) ==
    LET c == th[t].channel_index
        status_ret == IF "status" \in fails THEN -EIO ELSE 0
        w1c_ret == IF "w1c" \in fails THEN -EIO ELSE 0
        ret == passend_ret(th[t].ret, status_ret, w1c_ret)
    IN  /\ th[t].pc = "passend"
        /\ Cardinality(fails) <= reg_faults
        /\ reg_faults' = reg_faults - Cardinality(fails)
        /\ channels' = [channels EXCEPT ![c].descs =
                           xdma_desc_clear_last(@, channels[c].submitted_desc_count)]
        /\ hw' = IF w1c_ret = 0 THEN [hw EXCEPT ![c] = HwStop(@)] ELSE hw
        /\ th' = [th EXCEPT ![t].ret = ret,
                            ![t].g_w1c_failed = (w1c_ret # 0),
                            ![t].pc = IF th[t].sg # NULL /\ ret = 0
                                      THEN "start" ELSE "release"]
        /\ UNCHANGED chan_info
        /\ UNCHANGED <<dmaVars, qdmaVars, xdma_init, xdma_ctx, libVars>>

(***************************************************************************)
(* The engine: a running channel stops after n descriptors (n = submitted  *)
(* count when nothing goes wrong), latches n in the completed-descriptor   *)
(* count and raises the channel interrupt; xdma_channel_irq_handler        *)
(* signals the completion.                                                 *)
(***************************************************************************)
complete(done) == done + 1

\* completed-descriptor counts drawn for the engine: none, all but one, all
CompletedCounts(c) ==
    {0, channels[c].submitted_desc_count - 1, channels[c].submitted_desc_count} \cap Nat

HwComplete(c, n) ==
    /\ hw[c].run
    /\ ~hw[c].fired
    /\ n \in 0 .. channels[c].submitted_desc_count
    /\ hw' = [hw EXCEPT ![c].fired = TRUE, ![c].compl_count = n]
    /\ channels' = [channels EXCEPT ![c].req_compl = complete(@),
                                    ![c].hw_bytes = @ + BytesOf(channels[c].descs, n)]
    /\ UNCHANGED <<chan_info, th, reg_faults>>
    /\ UNCHANGED <<dmaVars, qdmaVars, xdma_init, xdma_ctx, libVars>>

(***************************************************************************)
(* The dmaengine driver (drivers/dma/xilinx/xdma.c): one channel.          *)
(*   xdma_chan   struct xdma_chan: dir, busy, the descriptor memory        *)
(*               (XDMA_DESC_BLOCK_NUM blocks of XDMA_DESC_ADJACENT         *)
(*               descriptors, contiguous), desc_blocks[].desc_num, the     *)
(*               slave address of cfg, the lists of the virtual channel    *)
(*               and the scheduled flag of the tasklet                     *)
(*   xdma_regs   the engine registers of the channel                       *)
(*   xdma_trace  history: the descriptors filled in each pass              *)
(***************************************************************************)
XDMA_DESC_CONTROL(adjacent, flag) ==
    [magic |-> XDMA_DESC_MAGIC, adj |-> adjacent - 1, flags |-> flag]

XDMA_DESC_CONTROL_LAST == XDMA_DESC_CONTROL(1, {XDMA_DESC_STOPPED, XDMA_DESC_COMPLETED})

XDMA_ADDR_L(addr) == addr % AddrWord
XDMA_ADDR_H(addr) == addr \div AddrWord

\* desc_blocks[i].virt_addr as an index into the descriptor memory, and
\* desc_blocks[i].dma_addr (xdma_alloc_chan_resources)
block_virt(i) == i * XDMA_DESC_ADJACENT
block_dma_addr(i) == DescBase + i * XDMA_DESC_BLOCK_SIZE

\* xdma_desc_set: every word of the descriptor
xdma_desc_set(dir, addr, slave_addr, len) ==
    IF dir = H2C
    THEN [control |-> XDMA_DESC_CONTROL(1, {}), bytes |-> len,
          next_lo |-> 0, next_hi |-> 0,
          src_addr_lo |-> XDMA_ADDR_L(addr), src_addr_hi |-> XDMA_ADDR_H(addr),
          dst_addr_lo |-> XDMA_ADDR_L(slave_addr), dst_addr_hi |-> XDMA_ADDR_H(slave_addr)]
    ELSE [control |-> XDMA_DESC_CONTROL(1, {}), bytes |-> len,
          next_lo |-> 0, next_hi |-> 0,
          dst_addr_lo |-> XDMA_ADDR_L(addr), dst_addr_hi |-> XDMA_ADDR_H(addr),
          src_addr_lo |-> XDMA_ADDR_L(slave_addr), src_addr_hi |-> XDMA_ADDR_H(slave_addr)]

\* req->nents-- on a u32
u32_dec(n) == IF n = 0 THEN 2147483647 ELSE n - 1

\* the slave address handed to xdma_desc_set for the next descriptor: the
\* loop never changes slave_addr
next_slave_addr(slave_addr, len) == slave_addr

\* sg_off kept for the next round when the rest of the segment is split
\* a split that starts the segment again
split_sg_off_restart(sg_off) == 0
split_sg_off(sg_off) == sg_off + XDMA_DESC_BLEN_MAX

(***************************************************************************)
(* The inner while loop of xdma_xfer_start: fills one block.               *)
(* st = [desc, desc_num, sg, sg_off, nents, slave_addr, descs, last_desc,  *)
(*       filled]; desc and last_desc index the descriptor memory, filled   *)
(* lists the descriptors written, in order.                                *)
(***************************************************************************)
RECURSIVE fill_block(_, _, _)
fill_block(dir, sgl, st) ==
    IF st.desc_num < XDMA_DESC_ADJACENT /\ st.sg # NULL
    THEN LET addr == sgl[st.sg].addr + st.sg_off
             rest == sgl[st.sg].len - st.sg_off
             split == rest > XDMA_DESC_BLEN_MAX
             len == IF split THEN XDMA_DESC_BLEN_MAX ELSE rest
             st1 == [st EXCEPT !.sg_off = IF split THEN split_sg_off(st.sg_off) ELSE 0,
                               !.sg = IF split THEN st.sg ELSE sg_next(sgl, st.sg),
                               !.nents = IF split THEN st.nents ELSE u32_dec(st.nents)]
         IN  IF len = 0
             THEN fill_block(dir, sgl, st1)
             ELSE fill_block(dir, sgl,
                      [st1 EXCEPT !.descs[st.desc] =
                                      xdma_desc_set(dir, addr, st.slave_addr, len),
                                  !.slave_addr = next_slave_addr(st.slave_addr, len),
                                  !.last_desc = st.desc,
                                  !.desc = st.desc + 1,
                                  !.desc_num = st.desc_num + 1,
                                  !.filled = Append(st.filled, st.desc)])
    ELSE st

\* the outer for loop: st has in addition i and desc_nums (desc_blocks[].desc_num)
RECURSIVE fill_blocks(_, _, _)
fill_blocks(dir, sgl, st) ==
    IF st.i < XDMA_DESC_BLOCK_NUM /\ st.nents # 0 /\ st.sg # NULL
    THEN LET b == fill_block(dir, sgl, [st EXCEPT !.desc = block_virt(st.i), !.desc_num = 0])
         IN  fill_blocks(dir, sgl,
                 [b EXCEPT !.i = st.i + 1,
                           !.desc_nums[st.i] = b.desc_num,
                           !.desc_num = 0])
    ELSE st

\* xdma_link_desc_blocks: the last descriptor of block i gets the adjacency
\* of block i + 1 and its bus address.  num_blocks - 1 is computed on a u32:
\* for num_blocks = 0 the loop runs over every block of the channel (and on
\* past the array, into memory that is no state of this model).
\* (desc_num - 1) * XDMA_DESC_SIZE is computed on a u32 as well: for
\* desc_num = 0 the sum with virt_addr is the descriptor before the block
\* where pointers are 32 bits wide (wrap) and outside the descriptor memory
\* where they are wider.
RECURSIVE link_from(_, _, _, _, _)
link_from(descs, desc_nums, i, bound, wrap) ==
    IF i < bound /\ i + 1 < XDMA_DESC_BLOCK_NUM
    THEN LET desc == IF desc_nums[i] = 0 /\ ~wrap THEN -1
                     ELSE block_virt(i) + (desc_nums[i] - 1)
             linked == IF desc \in DOMAIN descs
                       THEN [descs EXCEPT
                                ![desc].control = XDMA_DESC_CONTROL(desc_nums[i + 1], {}),
                                ![desc].next_lo = XDMA_ADDR_L(block_dma_addr(i + 1)),
                                ![desc].next_hi = XDMA_ADDR_H(block_dma_addr(i + 1))]
                       ELSE descs
         IN  link_from(linked, desc_nums, i + 1, bound, wrap)
    ELSE descs

xdma_link_desc_blocks(descs, desc_nums, num_blocks, wrap) ==
    link_from(descs, desc_nums, 0,
              IF num_blocks = 0 THEN XDMA_DESC_BLOCK_NUM ELSE num_blocks - 1, wrap)

(***************************************************************************)
(* xdma_xfer_start.  fail = 0: every register write succeeds; fail = 1..5: *)
(* the write of the control W1C, descriptor low, descriptor high,          *)
(* adjacency, control register fails.  stray is where the write through    *)
(* last_desc lands when no descriptor was filled and last_desc is          *)
(* uninitialised: a descriptor of the channel, or -1 for anywhere else;    *)
(* wrap is the pointer width of xdma_link_desc_blocks.  The result is      *)
(* [chan, regs, ret, filled, ran, writes]; ran tells that the call reached  *)
(* the descriptor loop, writes are the register writes of the call that    *)
(* succeeded, in their order, each with the RUN bit of the engine at the   *)
(* time of the write.                                                      *)
(***************************************************************************)
CHAN_CTRL_RUN_STOP == "RUN_STOP"
CHAN_CTRL_START == "START"

\* regmap_write on a channel register: the effect on the engine
xdma_write_reg(regs, w) ==
    CASE w.reg = "control_w1c" ->
            IF w.val = CHAN_CTRL_RUN_STOP THEN [regs EXCEPT !.run = FALSE] ELSE regs
      [] w.reg = "desc_lo" -> [regs EXCEPT !.desc_lo = w.val]
      [] w.reg = "desc_hi" -> [regs EXCEPT !.desc_hi = w.val]
      [] w.reg = "desc_adj" -> [regs EXCEPT !.adj = w.val]
      [] w.reg = "control" ->
            IF w.val = CHAN_CTRL_START THEN [regs EXCEPT !.run = TRUE, !.fired = FALSE]
            ELSE regs

\* the first n writes of ws, one after the other: [regs, log]
RECURSIVE xdma_write_regs(_, _, _, _)
xdma_write_regs(regs, ws, n, log) ==
    IF n = 0 \/ ws = << >> THEN [regs |-> regs, log |-> log]
    ELSE xdma_write_regs(xdma_write_reg(regs, Head(ws)), Tail(ws), n - 1,
                         Append(log, [reg |-> Head(ws).reg, val |-> Head(ws).val,
                                      run |-> regs.run]))

\* the write that stops the engine, at the head of xdma_xfer_start
xfer_stop_write == [reg |-> "control_w1c", val |-> CHAN_CTRL_RUN_STOP]

\* writes that start the engine before it has its descriptors
xfer_start_writes_start_first(desc_num) ==
    << [reg |-> "control", val |-> CHAN_CTRL_START],
       [reg |-> "desc_lo", val |-> XDMA_ADDR_L(block_dma_addr(0))],
       [reg |-> "desc_hi", val |-> XDMA_ADDR_H(block_dma_addr(0))],
       [reg |-> "desc_adj", val |-> desc_num - 1] >>
\* the writes at the tail of xdma_xfer_start; desc_num is desc_nums[0]
xfer_start_writes(desc_num) ==
    << [reg |-> "desc_lo", val |-> XDMA_ADDR_L(block_dma_addr(0))],
       [reg |-> "desc_hi", val |-> XDMA_ADDR_H(block_dma_addr(0))],
       [reg |-> "desc_adj", val |-> desc_num - 1],
       [reg |-> "control", val |-> CHAN_CTRL_START] >>

\* a guard that lets a busy channel through
xfer_refused_idle_only(chan) == Len(chan.issued) = 0
\* if (!vd || xdma_chan->busy) return -EINVAL;
xfer_refused(chan) == Len(chan.issued) = 0 \/ chan.busy

xdma_xfer_start(chan, regs, fail, stray, wrap) ==
    IF xfer_refused(chan)
    THEN [chan |-> chan, regs |-> regs, ret |-> -EINVAL, filled |-> << >>, ran |-> FALSE,
          writes |-> << >>]
    ELSE IF fail = 1
    THEN [chan |-> chan, regs |-> regs, ret |-> -EIO, filled |-> << >>, ran |-> FALSE,
          writes |-> << >>]
    ELSE LET stopped == xdma_write_regs(regs, <<xfer_stop_write>>, 1, << >>)
             regs1 == stopped.regs
             req == chan.issued[1]
         IN  IF req.dir # chan.dir
             THEN [chan |-> chan, regs |-> regs1, ret |-> -EINVAL, filled |-> << >>,
                   ran |-> FALSE, writes |-> stopped.log]
             ELSE LET st == fill_blocks(chan.dir, req.sgl,
                                [i |-> 0, desc |-> 0, desc_num |-> 0,
                                 sg |-> req.sg, sg_off |-> req.sg_off,
                                 nents |-> req.nents, slave_addr |-> req.slave_addr,
                                 descs |-> chan.descs, desc_nums |-> chan.desc_nums,
                                 last_desc |-> stray, filled |-> << >>])
                      linked == xdma_link_desc_blocks(st.descs, st.desc_nums, st.i, wrap)
                      marked == IF st.last_desc \in DOMAIN linked
                                THEN [linked EXCEPT ![st.last_desc].control =
                                                        XDMA_DESC_CONTROL_LAST]
                                ELSE linked
                      req1 == [req EXCEPT !.sg = st.sg, !.sg_off = st.sg_off,
                                          !.nents = st.nents]
                      chan1 == [chan EXCEPT !.descs = marked,
                                            !.desc_nums = st.desc_nums,
                                            !.issued[1] = req1]
                      written == xdma_write_regs(regs1, xfer_start_writes(st.desc_nums[0]),
                                                 IF fail = 0 THEN 4 ELSE fail - 2,
                                                 stopped.log)
                  IN  [chan |-> IF fail = 0 THEN [chan1 EXCEPT !.busy = TRUE] ELSE chan1,
                       regs |-> written.regs,
                       ret |-> IF fail = 0 THEN 0 ELSE -EIO,
                       filled |-> st.filled,
                       ran |-> TRUE,
                       writes |-> written.log]

\* the history of a call of xdma_xfer_start: call changes with every call,
\* ret and writes are those of the last call; passes, filled and started
\* are kept of the calls that reached the descriptor loop
Traced(trace, r) ==
    LET called == [trace EXCEPT !.call = ~@, !.ret = r.ret, !.writes = r.writes]
    IN  IF r.ran
        THEN [called EXCEPT !.passes = Append(@, [k \in 1 .. Len(r.filled) |->
                                                     r.chan.descs[r.filled[k]]]),
                            !.filled = r.filled,
                            !.started = Append(@, r.ret = 0)]
        ELSE called

\* CPUs of the host, and the most calls of xdma_issue_pending that are
\* followed through their lock steps
NumCpus == 2
MaxIssueCalls == 2
Cpus == 0 .. (NumCpus - 1)

\* the contexts that take vchan.lock: a task in xdma_issue_pending, the
\* softirq that runs xdma_channel_tasklet, the hard interrupt that runs
\* xdma_channel_isr
Contexts == {"issue", "tasklet", "isr"}

\* nobody in the driver: lock is the holder of vchan.lock, pc and cpu the
\* position and processor of each context, irqs_off the processors with
\* local interrupts disabled
vchan_idle ==
    [lock |-> "free", pc |-> [k \in Contexts |-> "idle"],
     cpu |-> [k \in Contexts |-> 0], irqs_off |-> {}, calls |-> 0]

InitDma ==
    /\ xdma_chan \in
          [dir : Dirs, busy : {FALSE},
           descs : {[d \in 0 .. (XDMA_DESC_NUM - 1) |-> ZeroDesc]},
           desc_nums : {[b \in 0 .. (XDMA_DESC_BLOCK_NUM - 1) |-> 0]},
           cfg_addr : {EndpointBase},
           submitted : {<< >>}, issued : {<< >>}, completed : {0},
           tasklet : {FALSE}]
    /\ xdma_regs = [run |-> FALSE, fired |-> FALSE, desc_lo |-> 0, desc_hi |-> 0, adj |-> 0]
    /\ xdma_trace = [prepared |-> FALSE, sgl |-> << >>, sg_len |-> 0, passes |-> << >>,
                     filled |-> << >>, started |-> << >>,
                     call |-> FALSE, ret |-> 0, writes |-> << >>]
    /\ xdma_ctx = vchan_idle

\* xdma_prep_slave_sg followed by the submission of the descriptor
\* (vchan_tx_submit puts it on the submitted list); one request per run
PrepSubmit(sgl, dir) ==
    /\ ~xdma_trace.prepared
    /\ xdma_chan' = [xdma_chan EXCEPT !.submitted =
                        Append(@, [dir |-> dir, slave_addr |-> xdma_chan.cfg_addr,
                                   sgl |-> sgl, sg |-> 1, sg_off |-> 0,
                                   nents |-> Len(sgl)])]
    /\ xdma_trace' = [xdma_trace EXCEPT !.prepared = TRUE, !.sgl = sgl, !.sg_len = Len(sgl)]
    /\ UNCHANGED xdma_regs
    /\ UNCHANGED <<xleafVars, qdmaVars, xdma_init, xdma_ctx, libVars>>

StrayTargets == {-1} \cup (0 .. (XDMA_DESC_NUM - 1))

\* the call fills no descriptor: last_desc is read uninitialised
NothingFilled(chan) ==
    LET r == xdma_xfer_start(chan, xdma_regs, 0, -1, FALSE)
    IN  r.ran /\ Len(r.filled) = 0

\* the outcomes of the undefined accesses of a call; one when it has none
StrayChoices(chan) == IF NothingFilled(chan) THEN StrayTargets ELSE {-1}
WrapChoices(chan) == IF NothingFilled(chan) THEN BOOLEAN ELSE {FALSE}

\* the channel as xdma_issue_pending and the tasklet hand it to xdma_xfer_start
IssuedChan == [xdma_chan EXCEPT !.issued = @ \o xdma_chan.submitted, !.submitted = << >>]
TaskletChan == [xdma_chan EXCEPT !.tasklet = FALSE]

\* xdma_issue_pending: vchan_issue_pending moves the submitted descriptors
\* to the issued list; xdma_xfer_start when the issued list is not empty
issue_pending_locked(fail, stray, wrap) ==
    LET moved == IssuedChan
        r == xdma_xfer_start(moved, xdma_regs, fail, stray, wrap)
    IN  /\ xdma_trace.prepared
        /\ fail > 0 => reg_faults > 0
        /\ IF Len(moved.issued) > 0
           THEN /\ xdma_chan' = r.chan
                /\ xdma_regs' = r.regs
                /\ xdma_trace' = Traced(xdma_trace, r)
                /\ reg_faults' = IF fail > 0 /\ r.ret = -EIO
                                 THEN reg_faults - 1 ELSE reg_faults
           ELSE /\ xdma_chan' = moved
                /\ UNCHANGED <<xdma_regs, xdma_trace, reg_faults>>
        /\ UNCHANGED <<chan_info, channels, hw, th, qdmaVars, xdma_init, libVars>>

IssuePending(fail, stray, wrap) ==
    /\ issue_pending_locked(fail, stray, wrap)
    /\ UNCHANGED xdma_ctx

\* an interrupt handler that leaves the channel busy
isr_keep_busy(chan) == chan
\* xdma_chan->busy = false;
isr_clear_busy(chan) == [chan EXCEPT !.busy = FALSE]

\* xdma_channel_isr under vchan.lock: the channel it leaves
xdma_channel_isr(chan) ==
    IF Len(chan.issued) = 0 THEN chan
    ELSE IF chan.issued[1].sg = NULL
         THEN [isr_clear_busy(chan) EXCEPT !.issued = Tail(@), !.completed = @ + 1]
         ELSE [isr_clear_busy(chan) EXCEPT !.tasklet = TRUE]

\* the engine raises the channel interrupt and xdma_channel_isr runs
ChannelIsr ==
    /\ xdma_regs.run
    /\ ~xdma_regs.fired
    /\ xdma_regs' = [xdma_regs EXCEPT !.fired = TRUE]
    /\ xdma_chan' = xdma_channel_isr(xdma_chan)
    /\ UNCHANGED xdma_trace
    /\ UNCHANGED <<xleafVars, qdmaVars, xdma_init, xdma_ctx, libVars>>

\* xdma_channel_tasklet, the part under vchan.lock
channel_tasklet_locked(fail, stray, wrap) ==
    LET r == xdma_xfer_start(TaskletChan, xdma_regs, fail, stray, wrap)
    IN  /\ xdma_chan.tasklet
        /\ fail > 0 => reg_faults > 0
        /\ xdma_chan' = r.chan
        /\ xdma_regs' = r.regs
        /\ xdma_trace' = Traced(xdma_trace, r)
        /\ reg_faults' = IF fail > 0 /\ r.ret = -EIO THEN reg_faults - 1 ELSE reg_faults
        /\ UNCHANGED <<chan_info, channels, hw, th, qdmaVars, xdma_init, libVars>>

\* xdma_channel_tasklet
ChannelTasklet(fail, stray, wrap) ==
    /\ channel_tasklet_locked(fail, stray, wrap)
    /\ UNCHANGED xdma_ctx

(***************************************************************************)
(* The same handlers with vchan.lock and the processors they run on: one   *)
(* action per step between two lock operations.  A hard interrupt runs on  *)
(* a processor whose local interrupts are enabled and holds back whatever  *)
(* that processor was running until it returns; the tasklet runs on the    *)
(* processor of the interrupt that scheduled it.                           *)
(***************************************************************************)
InContext(k) == xdma_ctx.pc[k] # "idle"

\* no context of higher priority has taken the processor of k
Runnable(k) ==
    CASE k = "isr" -> TRUE
      [] k = "tasklet" -> ~(InContext("isr") /\ xdma_ctx.cpu["isr"] = xdma_ctx.cpu[k])
      [] k = "issue" ->
            /\ ~(InContext("isr") /\ xdma_ctx.cpu["isr"] = xdma_ctx.cpu[k])
            /\ ~(InContext("tasklet") /\ xdma_ctx.cpu["tasklet"] = xdma_ctx.cpu[k])

\* spin_lock succeeds
vchan_lock(k) ==
    /\ xdma_ctx.pc[k] = "lock"
    /\ Runnable(k)
    /\ xdma_ctx.lock = "free"
    /\ xdma_ctx' = [xdma_ctx EXCEPT !.lock = k, !.pc[k] = "locked"]
    /\ UNCHANGED <<xleafVars, dmaVars, qdmaVars, xdma_init, libVars>>

\* xdma_issue_pending on cpu: spin_lock_irqsave disables the local interrupts
IssueEnter(cpu) ==
    /\ xdma_trace.prepared
    /\ ~InContext("issue")
    /\ xdma_ctx.calls < MaxIssueCalls
    /\ \A k \in {"isr", "tasklet"} : ~(InContext(k) /\ xdma_ctx.cpu[k] = cpu)
    /\ xdma_ctx' = [xdma_ctx EXCEPT !.pc["issue"] = "lock", !.cpu["issue"] = cpu,
                                    !.irqs_off = @ \cup {cpu}, !.calls = @ + 1]
    /\ UNCHANGED <<xleafVars, dmaVars, qdmaVars, xdma_init, libVars>>

IssueLock == vchan_lock("issue")

IssueLocked(fail, stray, wrap) ==
    /\ xdma_ctx.pc["issue"] = "locked"
    /\ Runnable("issue")
    /\ issue_pending_locked(fail, stray, wrap)
    /\ xdma_ctx' = [xdma_ctx EXCEPT !.pc["issue"] = "unlock"]

\* spin_unlock_irqrestore
IssueUnlock ==
    /\ xdma_ctx.pc["issue"] = "unlock"
    /\ Runnable("issue")
    /\ xdma_ctx' = [xdma_ctx EXCEPT !.lock = "free", !.pc["issue"] = "idle",
                                    !.irqs_off = @ \ {xdma_ctx.cpu["issue"]}]
    /\ UNCHANGED <<xleafVars, dmaVars, qdmaVars, xdma_init, libVars>>

\* the engine raises the channel interrupt; cpu takes it
IsrEnter(cpu) ==
    /\ xdma_regs.run
    /\ ~xdma_regs.fired
    /\ ~InContext("isr")
    /\ cpu \notin xdma_ctx.irqs_off
    /\ xdma_regs' = [xdma_regs EXCEPT !.fired = TRUE]
    /\ xdma_ctx' = [xdma_ctx EXCEPT !.pc["isr"] = "lock", !.cpu["isr"] = cpu]
    /\ UNCHANGED <<xdma_chan, xdma_trace>>
    /\ UNCHANGED <<xleafVars, qdmaVars, xdma_init, libVars>>

\* spin_lock(&xdma_chan->vchan.lock) of xdma_channel_isr
IsrLock == vchan_lock("isr")

\* tasklet_schedule queues the tasklet on the processor of the interrupt
IsrLocked ==
    /\ xdma_ctx.pc["isr"] = "locked"
    /\ xdma_chan' = xdma_channel_isr(xdma_chan)
    /\ xdma_ctx' = [xdma_ctx EXCEPT
                       !.pc["isr"] = "unlock",
                       !.cpu["tasklet"] = IF xdma_chan'.tasklet /\ ~InContext("tasklet")
                                          THEN xdma_ctx.cpu["isr"] ELSE @]
    /\ UNCHANGED <<xdma_regs, xdma_trace>>
    /\ UNCHANGED <<xleafVars, qdmaVars, xdma_init, libVars>>

IsrUnlock ==
    /\ xdma_ctx.pc["isr"] = "unlock"
    /\ xdma_ctx' = [xdma_ctx EXCEPT !.lock = "free", !.pc["isr"] = "idle"]
    /\ UNCHANGED <<xleafVars, dmaVars, qdmaVars, xdma_init, libVars>>

\* the softirq starts xdma_channel_tasklet; interrupts stay enabled
TaskletEnter ==
    /\ xdma_chan.tasklet
    /\ ~InContext("tasklet")
    /\ xdma_ctx.cpu["tasklet"] \notin xdma_ctx.irqs_off
    /\ ~(InContext("isr") /\ xdma_ctx.cpu["isr"] = xdma_ctx.cpu["tasklet"])
    /\ xdma_ctx' = [xdma_ctx EXCEPT !.pc["tasklet"] = "lock"]
    /\ UNCHANGED <<xleafVars, dmaVars, qdmaVars, xdma_init, libVars>>

\* spin_lock(&xdma_chan->vchan.lock) of xdma_channel_tasklet
TaskletLock == vchan_lock("tasklet")

TaskletLocked(fail, stray, wrap) ==
    /\ xdma_ctx.pc["tasklet"] = "locked"
    /\ Runnable("tasklet")
    /\ channel_tasklet_locked(fail, stray, wrap)
    /\ xdma_ctx' = [xdma_ctx EXCEPT !.pc["tasklet"] = "unlock"]

TaskletUnlock ==
    /\ xdma_ctx.pc["tasklet"] = "unlock"
    /\ Runnable("tasklet")
    /\ xdma_ctx' = [xdma_ctx EXCEPT !.lock = "free", !.pc["tasklet"] = "idle"]
    /\ UNCHANGED <<xleafVars, dmaVars, qdmaVars, xdma_init, libVars>>

(***************************************************************************)
(* The amdmqdma driver (drivers/dma/amdmqdma): indirect context            *)
(* programming through the window of 8 data, 8 mask and one command        *)
(* register, the polling helper hw_monitor_reg and qdma_init.              *)
(*                                                                         *)
(* A u32 is WordBits wide and an int IntBits wide in the model; register   *)
(* addresses, field positions, selectors and error codes keep the values   *)
(* of the source.                                                          *)
(***************************************************************************)
\* width of a u32 register word (32 in the source)
WordBits == 16
\* width of the int that counts the polls of hw_monitor_reg (32 in the source)
IntBits == 3
\* concurrent callers of the context write
NumCtxtCallers == 2
\* polling defaults, in microseconds (10 and 500 * 1000 in mqdma-hw.h)
QDMA_REG_POLL_DFLT_INTERVAL_US == 1
QDMA_REG_POLL_DFLT_TIMEOUT_US == 2

U32_MAX == 2 ^ WordBits - 1
INT_MAX == 2 ^ (IntBits - 1) - 1
INT_MIN == 0 - 2 ^ (IntBits - 1)
\* reads after which a poll that has not returned is no longer followed: one
\* more than a count that wraps through all values of the int needs
MaxReads == 2 ^ IntBits + 2

\* conversion of a value to u32, and of a u32 quotient to int
to_u32(x) == x % (2 ^ WordBits)
to_int(x) == LET m == x % (2 ^ IntBits) IN IF m > INT_MAX THEN m - 2 ^ IntBits ELSE m

RECURSIVE BitAnd(_, _)
BitAnd(a, b) ==
    IF a = 0 \/ b = 0 THEN 0
    ELSE (a % 2) * (b % 2) + 2 * BitAnd(a \div 2, b \div 2)

BIT(n) == 2 ^ n
GENMASK(h, l) == 2 ^ (h + 1) - 2 ^ l

\* __bf_shf: the lowest set bit of a mask, as a multiplier
RECURSIVE bf_shf(_)
bf_shf(m) == IF m % 2 = 1 THEN 1 ELSE 2 * bf_shf(m \div 2)

FIELD_PREP(m, y) == BitAnd(y * bf_shf(m), m)

\* FIELD_SET(m, y, x): (x & ~m) | FIELD_PREP(m, y); the two operands of the
\* or have no bit in common
FIELD_SET(m, y, x) == (x - BitAnd(x, m)) + FIELD_PREP(m, y)

QDMA_SUCCESS == 0
QDMA_ERR_INV_PARAM == 1
QDMA_ERR_HWACC_BUSY_TIMEOUT == 3
ENOMEM == 12

QDMA_CTXT_CMD_WR == 1
QDMA_CTXT_SEL_SW_C2H == 0
QDMA_CTXT_SEL_FMAP == 12

IND_CTXT_CMD_QID_SHIFT == 7
IND_CTXT_CMD_OP_SHIFT == 5
IND_CTXT_CMD_SEL_SHIFT == 1

QDMA_REG_FUNC_ID == 300
QDMA_REG_IND_CTXT_DATA_BASE == 2052
QDMA_REG_IND_CTXT_MASK_BASE == 2084
QDMA_REG_IND_CTXT_CMD == 2116
QDMA_REG_IND_CTXT_CMD_BUSY_MASK == BIT(0)

QDMA_IND_CTXT_DATA_NUM_REGS == 8
QDMA_CPM5_FMAP_NUM_WORDS == 2
QDMA_CPM5_FMAP_CTXT_W1_QID_MAX_MASK == GENMASK(11, 0)
QDMA_CPM5_FMAP_CTXT_W0_QID_MASK == GENMASK(10, 0)
sizeof_u32 == 4

(***************************************************************************)
(* struct qdma_indirect_ctxt_regs seen as the array of words wr_data that  *)
(* qdma_cpm5_indirect_reg_write walks: words 0-7 are qdma_ind_ctxt_data,   *)
(* 8-15 qdma_ind_ctxt_mask, and the union cmd follows: cmd.word shares     *)
(* word 16 with cmd.bits.busy, cmd.bits.sel is word 17, cmd.bits.op word   *)
(* 18, cmd.bits.qid word 19 (cmd.bits.rsvd, word 20, is never set).        *)
(***************************************************************************)
WR_DATA_MASK == QDMA_IND_CTXT_DATA_NUM_REGS
WR_DATA_CMD_WORD == 2 * QDMA_IND_CTXT_DATA_NUM_REGS
WR_DATA_CMD_SEL == WR_DATA_CMD_WORD + 1
WR_DATA_CMD_OP == WR_DATA_CMD_WORD + 2
WR_DATA_CMD_QID == WR_DATA_CMD_WORD + 3

\* the first loop: data[index] below cnt, zero from cnt on
ctxt_data_word_no_fill(data, cnt, index) == data[index]
ctxt_data_word(data, cnt, index) == IF index < cnt THEN data[index] ELSE 0

ctxt_mask_word == U32_MAX

qdma_indirect_ctxt_regs(sel, func_id, data, cnt) ==
    [index \in 0 .. WR_DATA_CMD_QID |->
        IF index < WR_DATA_MASK THEN ctxt_data_word(data, cnt, index)
        ELSE IF index < WR_DATA_CMD_WORD THEN ctxt_mask_word
        ELSE IF index = WR_DATA_CMD_WORD THEN 0
        ELSE IF index = WR_DATA_CMD_SEL THEN sel
        ELSE IF index = WR_DATA_CMD_OP THEN QDMA_CTXT_CMD_WR
        ELSE func_id]

\* the second loop: word index goes to the register at reg_addr, which starts
\* at the data base and advances by sizeof(u32)
NumCtxtWrites == 2 * QDMA_IND_CTXT_DATA_NUM_REGS + 1
wr_reg_addr_cmd_first(index) ==
    QDMA_REG_IND_CTXT_DATA_BASE + ((index + NumCtxtWrites - 1) % NumCtxtWrites) * sizeof_u32
wr_reg_addr(index) == QDMA_REG_IND_CTXT_DATA_BASE + index * sizeof_u32

\* qdma_cpm5_fmap_context_write: the two words of the fmap context
fmap_words(config) ==
    [index \in 0 .. QDMA_IND_CTXT_DATA_NUM_REGS - 1 |->
        IF index = 0 THEN FIELD_SET(QDMA_CPM5_FMAP_CTXT_W0_QID_MASK, 0, config.qbase)
        ELSE IF index = 1 THEN FIELD_SET(QDMA_CPM5_FMAP_CTXT_W1_QID_MAX_MASK, 0, config.qmax)
        ELSE 0]

QDMA_REG_GLBL_RNG_SZ_BASE == 516
REG_SIZE == 4
QDMA_MM_CONTROL_RUN == 1
QDMA_MM_CONTROL_STEP == 256
QDMA_OFFSET_C2H_MM_CONTROL == 4100
QDMA_OFFSET_H2C_MM_CONTROL == 4612
QDMA_CPM5_MM_CHANNEL_MAX == 2
g_ring_sz == <<2049, 65, 129, 193, 257, 385, 513, 769,
               1025, 1537, 3073, 4097, 6145, 8193, 12289, 16385>>

(***************************************************************************)
(* State of the amdmqdma device.                                           *)
(*   qdev      struct qdma_device: hw_prg_lock (0 free, otherwise the      *)
(*             caller that holds it), qbase, max_queues, func_id, and      *)
(*             whether the channel arrays and the rings are allocated      *)
(*   qdma_hw   the device: BUSY bit of the command register and the        *)
(*             function id register                                        *)
(*   qdma_th   the callers: position in qdma_cpm5_indirect_reg_write,      *)
(*             hw_monitor_reg, qdma_init and their arguments and locals;   *)
(*             reads and first_match are history fields of the poll        *)
(*   qdma_log  every register access in the order it reached the device    *)
(***************************************************************************)
CtxtCallers == 1 .. NumCtxtCallers

no_data == [index \in 0 .. QDMA_IND_CTXT_DATA_NUM_REGS - 1 |-> 0]
no_wr_data == [index \in 0 .. WR_DATA_CMD_QID |-> 0]

qdma_th_idle ==
    [pc |-> "idle", call |-> "none", sel |-> 0, func_id |-> 0, data |-> no_data,
     cnt |-> 0, config |-> [qbase |-> 0, qmax |-> 0], wr_data |-> no_wr_data,
     index |-> 0, reg |-> 0, mask |-> 0, val |-> 0, interval_us |-> 0,
     timeout_us |-> 0, count |-> 0, v |-> 0, reads |-> 0, first_match |-> 0,
     mon_ret |-> 0, fmap_err |-> 0, ret |-> 0]

InitQdmaDev(max_dma_channels, func_id, mm_en) ==
    /\ qdev = [hw_prg_lock |-> 0, qbase |-> 0, max_queues |-> max_dma_channels,
               func_id |-> 0, mm_en |-> mm_en, h2c_chans |-> FALSE, c2h_chans |-> FALSE,
               h2c_ring |-> "null", c2h_ring |-> "null"]
    /\ qdma_hw = [busy |-> FALSE, func_id |-> func_id]
    /\ qdma_th = [t \in CtxtCallers |-> qdma_th_idle]
    /\ qdma_log = << >>

InitQdma == InitQdmaDev(QDMA_CPM5_MM_CHANNEL_MAX, 0, TRUE)

\* spin_lock returns once the lock is free; spin_unlock frees it
can_lock_always(lock) == TRUE
can_lock(lock) == lock = 0
spin_unlock_lost(lock) == lock
spin_unlock(lock) == 0

\* qdma_read_reg / qdma_write_reg on the memory-mapped regmap: the access
\* reaches the device and is recorded
qdma_read_reg(dev_hw, reg) ==
    IF reg = QDMA_REG_IND_CTXT_CMD
    THEN (IF dev_hw.busy THEN QDMA_REG_IND_CTXT_CMD_BUSY_MASK ELSE 0)
    ELSE IF reg = QDMA_REG_FUNC_ID THEN dev_hw.func_id
    ELSE 0

Access(t, op, reg, val) == [t |-> t, op |-> op, reg |-> reg, val |-> val]

\* a write of the command register starts the operation: BUSY is set until
\* the device has finished
qdma_write_reg(dev_hw, reg) ==
    IF reg = QDMA_REG_IND_CTXT_CMD THEN [dev_hw EXCEPT !.busy = TRUE] ELSE dev_hw

(***************************************************************************)
(* hw_monitor_reg.  Entry applies the defaults and computes count; each    *)
(* iteration of the do-while is PollRead followed by PollDelay; PollFinal  *)
(* is the read after the loop.                                             *)
(***************************************************************************)
hw_monitor_reg_enter(me, reg, mask, val, interval_us, timeout_us) ==
    LET interval == IF interval_us = 0 THEN QDMA_REG_POLL_DFLT_INTERVAL_US ELSE interval_us
        timeout == IF timeout_us = 0 THEN QDMA_REG_POLL_DFLT_TIMEOUT_US ELSE timeout_us
    IN  [me EXCEPT !.pc = "poll", !.reg = reg, !.mask = mask, !.val = val,
                   !.interval_us = interval, !.timeout_us = timeout,
                   !.count = to_int(timeout \div interval),
                   !.v = 0, !.reads = 0, !.first_match = 0, !.mon_ret = 0]

\* where hw_monitor_reg returns to
monitor_return_pc(me) == IF me.call = "monitor" THEN "done" ELSE "unlock"

\* --count; decrementing INT_MIN overflows the int: the count either wraps
\* to INT_MAX or the build treats the loop condition as still true
dec_count(count, wraps) ==
    IF count = INT_MIN THEN (IF wraps THEN INT_MAX ELSE INT_MIN) ELSE count - 1

OverflowChoices(t) ==
    IF qdma_th[t].pc = "delay" /\ qdma_th[t].count = INT_MIN THEN BOOLEAN ELSE {TRUE}

MonitorCall(t, mask, val, interval_us, timeout_us) ==
    /\ qdma_th[t].pc = "idle"
    /\ qdma_th' = [qdma_th EXCEPT ![t] =
           hw_monitor_reg_enter([qdma_th[t] EXCEPT !.call = "monitor"],
                                QDMA_REG_IND_CTXT_CMD, mask, val, interval_us, timeout_us)]
    /\ UNCHANGED <<qdev, qdma_hw, qdma_log>>
    /\ UNCHANGED <<xleafVars, dmaVars, xdma_init, xdma_ctx, libVars>>

monitor_read(me, v, final) ==
    LET match == BitAnd(v, me.mask) = me.val
        seen == [me EXCEPT !.v = v, !.reads = me.reads + 1,
                           !.first_match = IF match /\ me.first_match = 0
                                           THEN me.reads + 1 ELSE me.first_match]
    IN  IF match
        THEN [seen EXCEPT !.mon_ret = QDMA_SUCCESS, !.ret = QDMA_SUCCESS,
                          !.pc = monitor_return_pc(me)]
        ELSE IF final
        THEN [seen EXCEPT !.mon_ret = -QDMA_ERR_HWACC_BUSY_TIMEOUT,
                          !.ret = -QDMA_ERR_HWACC_BUSY_TIMEOUT,
                          !.pc = monitor_return_pc(me)]
        ELSE [seen EXCEPT !.pc = "delay"]

PollRead(t) ==
    /\ qdma_th[t].pc = "poll"
    /\ qdma_th[t].reads < MaxReads
    /\ LET v == qdma_read_reg(qdma_hw, qdma_th[t].reg)
       IN  /\ qdma_th' = [qdma_th EXCEPT ![t] = monitor_read(qdma_th[t], v, FALSE)]
           /\ qdma_log' = Append(qdma_log, Access(t, "r", qdma_th[t].reg, v))
    /\ UNCHANGED <<qdev, qdma_hw>>
    /\ UNCHANGED <<xleafVars, dmaVars, xdma_init, xdma_ctx, libVars>>

PollDelay(t, wraps) ==
    /\ qdma_th[t].pc = "delay"
    /\ LET count == dec_count(qdma_th[t].count, wraps)
       IN  qdma_th' = [qdma_th EXCEPT ![t].count = count,
                                      ![t].pc = IF count # 0 THEN "poll" ELSE "final"]
    /\ UNCHANGED <<qdev, qdma_hw, qdma_log>>
    /\ UNCHANGED <<xleafVars, dmaVars, xdma_init, xdma_ctx, libVars>>

PollFinal(t) ==
    /\ qdma_th[t].pc = "final"
    /\ LET v == qdma_read_reg(qdma_hw, qdma_th[t].reg)
       IN  /\ qdma_th' = [qdma_th EXCEPT ![t] = monitor_read(qdma_th[t], v, TRUE)]
           /\ qdma_log' = Append(qdma_log, Access(t, "r", qdma_th[t].reg, v))
    /\ UNCHANGED <<qdev, qdma_hw>>
    /\ UNCHANGED <<xleafVars, dmaVars, xdma_init, xdma_ctx, libVars>>

(***************************************************************************)
(* qdma_cpm5_indirect_reg_write, one step per register access.             *)
(***************************************************************************)
CtxtCall(t, sel, func_id, data, cnt) ==
    /\ qdma_th[t].pc = "idle"
    /\ qdma_th' = [qdma_th EXCEPT ![t].pc = "lock", ![t].call = "ctxt", ![t].sel = sel,
                                  ![t].func_id = func_id, ![t].data = data, ![t].cnt = cnt]
    /\ UNCHANGED <<qdev, qdma_hw, qdma_log>>
    /\ UNCHANGED <<xleafVars, dmaVars, xdma_init, xdma_ctx, libVars>>

\* qdma_cpm5_fmap_context_write: rejects a NULL config, otherwise builds the
\* two words and calls qdma_cpm5_indirect_reg_write
qdma_cpm5_fmap_context_write(me, call, func_id, config, config_null) ==
    IF config_null
    THEN [me EXCEPT !.pc = "done", !.call = call, !.ret = -QDMA_ERR_INV_PARAM]
    ELSE [me EXCEPT !.pc = "lock", !.call = call, !.sel = QDMA_CTXT_SEL_FMAP,
                    !.func_id = func_id, !.config = config,
                    !.data = fmap_words(config), !.cnt = QDMA_CPM5_FMAP_NUM_WORDS]

FmapCall(t, func_id, config, config_null) ==
    /\ qdma_th[t].pc = "idle"
    /\ qdma_th' = [qdma_th EXCEPT ![t] =
           qdma_cpm5_fmap_context_write(qdma_th[t], "fmap", func_id, config, config_null)]
    /\ UNCHANGED <<qdev, qdma_hw, qdma_log>>
    /\ UNCHANGED <<xleafVars, dmaVars, xdma_init, xdma_ctx, libVars>>

\* spin_lock, then the loop that fills regs and the setup of regs.cmd
SpinLock(t) ==
    /\ qdma_th[t].pc = "lock"
    /\ can_lock(qdev.hw_prg_lock)
    /\ qdev' = [qdev EXCEPT !.hw_prg_lock = t]
    /\ qdma_th' = [qdma_th EXCEPT
           ![t].pc = "write",
           ![t].wr_data = qdma_indirect_ctxt_regs(qdma_th[t].sel, qdma_th[t].func_id,
                                                  qdma_th[t].data, qdma_th[t].cnt),
           ![t].index = 0]
    /\ UNCHANGED <<qdma_hw, qdma_log>>
    /\ UNCHANGED <<xleafVars, dmaVars, xdma_init, xdma_ctx, libVars>>

\* one iteration of the loop of qdma_write_reg; after the last one
\* hw_monitor_reg is entered on the BUSY bit with the default interval and
\* timeout
WriteReg(t) ==
    /\ qdma_th[t].pc = "write"
    /\ LET me == qdma_th[t]
           reg_addr == wr_reg_addr(me.index)
           next == [me EXCEPT !.index = me.index + 1]
       IN  /\ qdma_log' = Append(qdma_log, Access(t, "w", reg_addr, me.wr_data[me.index]))
           /\ qdma_hw' = qdma_write_reg(qdma_hw, reg_addr)
           /\ qdma_th' = [qdma_th EXCEPT ![t] =
                  IF next.index < NumCtxtWrites THEN next
                  ELSE hw_monitor_reg_enter(next, QDMA_REG_IND_CTXT_CMD,
                                            QDMA_REG_IND_CTXT_CMD_BUSY_MASK, 0,
                                            QDMA_REG_POLL_DFLT_INTERVAL_US,
                                            QDMA_REG_POLL_DFLT_TIMEOUT_US)]
    /\ UNCHANGED qdev
    /\ UNCHANGED <<xleafVars, dmaVars, xdma_init, xdma_ctx, libVars>>

\* both returns of qdma_cpm5_indirect_reg_write: spin_unlock, then
\* -QDMA_ERR_HWACC_BUSY_TIMEOUT when hw_monitor_reg failed, QDMA_SUCCESS
\* otherwise
CtxtUnlock(t) ==
    /\ qdma_th[t].pc = "unlock"
    /\ qdev' = [qdev EXCEPT !.hw_prg_lock = spin_unlock(qdev.hw_prg_lock)]
    /\ qdma_th' = [qdma_th EXCEPT
           ![t].ret = IF qdma_th[t].mon_ret # 0 THEN -QDMA_ERR_HWACC_BUSY_TIMEOUT
                      ELSE QDMA_SUCCESS,
           ![t].pc = IF qdma_th[t].call = "init" THEN "init_ret" ELSE "done"]
    /\ UNCHANGED <<qdma_hw, qdma_log>>
    /\ UNCHANGED <<xleafVars, dmaVars, xdma_init, xdma_ctx, libVars>>

\* the device finishes the operation the command register started
CtxtHwDone ==
    /\ qdma_hw.busy
    /\ qdma_hw' = [qdma_hw EXCEPT !.busy = FALSE]
    /\ UNCHANGED <<qdev, qdma_th, qdma_log>>
    /\ UNCHANGED <<xleafVars, dmaVars, xdma_init, xdma_ctx, libVars>>

\* the bit that a direct call of hw_monitor_reg polls changes under it
PolledBitChanges ==
    /\ \E t \in CtxtCallers : qdma_th[t].call = "monitor" /\ qdma_th[t].pc # "done"
    /\ qdma_hw' = [qdma_hw EXCEPT !.busy = ~qdma_hw.busy]
    /\ UNCHANGED <<qdev, qdma_th, qdma_log>>
    /\ UNCHANGED <<xleafVars, dmaVars, xdma_init, xdma_ctx, libVars>>

(***************************************************************************)
(* qdma_init.  InitCall is qdma_init up to the call of qdma_fmap_conf      *)
(* inside set_initial_regs; the context write then runs as the steps       *)
(* above; InitReturn is the rest of set_initial_regs and of qdma_init.     *)
(***************************************************************************)
to_u16(x) == x % 65536

RECURSIVE mm_control_writes(_, _, _)
mm_control_writes(t, id, channel_max) ==
    IF id >= channel_max THEN << >>
    ELSE <<Access(t, "w", QDMA_OFFSET_C2H_MM_CONTROL + id * QDMA_MM_CONTROL_STEP,
                  QDMA_MM_CONTROL_RUN),
           Access(t, "w", QDMA_OFFSET_H2C_MM_CONTROL + id * QDMA_MM_CONTROL_STEP,
                  QDMA_MM_CONTROL_RUN)>>
         \o mm_control_writes(t, id + 1, channel_max)

qdma_write_csr_values(t, reg, cnt, values) ==
    [index \in 1 .. cnt |-> Access(t, "w", reg + (index - 1) * sizeof_u32, values[index])]

\* set_initial_regs up to the fmap configuration
set_initial_regs_accesses(t, dev, dev_hw) ==
    <<Access(t, "r", QDMA_REG_FUNC_ID, qdma_read_reg(dev_hw, QDMA_REG_FUNC_ID))>>
    \o qdma_write_csr_values(t, QDMA_REG_GLBL_RNG_SZ_BASE, REG_SIZE, g_ring_sz)
    \o (IF dev.mm_en THEN mm_control_writes(t, 0, QDMA_CPM5_MM_CHANNEL_MAX) ELSE << >>)

InitCall(t, h2c_ok, c2h_ok) ==
    /\ qdma_th[t].pc = "idle"
    /\ IF ~h2c_ok
       THEN /\ qdma_th' = [qdma_th EXCEPT ![t].pc = "done", ![t].call = "init", ![t].ret = -1]
            /\ UNCHANGED <<qdev, qdma_log>>
       ELSE IF ~c2h_ok
       THEN /\ qdma_th' = [qdma_th EXCEPT ![t].pc = "done", ![t].call = "init", ![t].ret = -1]
            /\ qdev' = [qdev EXCEPT !.h2c_chans = TRUE]
            /\ UNCHANGED qdma_log
       ELSE /\ qdev' = [qdev EXCEPT !.h2c_chans = TRUE, !.c2h_chans = TRUE]
            /\ qdma_log' = qdma_log \o set_initial_regs_accesses(t, qdev, qdma_hw)
            /\ qdma_th' = [qdma_th EXCEPT ![t] =
                   qdma_cpm5_fmap_context_write(
                       qdma_th[t], "init",
                       to_u16(qdma_read_reg(qdma_hw, QDMA_REG_FUNC_ID)),
                       [qbase |-> to_u16(qdev.qbase), qmax |-> to_u16(qdev.max_queues)],
                       FALSE)]
    /\ UNCHANGED qdma_hw
    /\ UNCHANGED <<xleafVars, dmaVars, xdma_init, xdma_ctx, libVars>>

\* set_initial_regs returns a u32: (u32)-1 when qdma_fmap_conf failed, the
\* function id otherwise
set_initial_regs_ret(err, func_id) == IF to_u32(err) # 0 THEN to_u32(-1) ELSE func_id

\* alloc_queues: the two kcalloc; when the second fails the first ring is
\* freed and its pointer left in place
alloc_queues(dev, h2c_ok, c2h_ok) ==
    IF ~h2c_ok THEN [dev EXCEPT !.h2c_ring = "null"]
    ELSE IF ~c2h_ok THEN [dev EXCEPT !.h2c_ring = "freed", !.c2h_ring = "null"]
    ELSE [dev EXCEPT !.h2c_ring = "allocated", !.c2h_ring = "allocated"]

InitReturn(t, h2c_ok, c2h_ok) ==
    /\ qdma_th[t].pc = "init_ret"
    /\ LET err == qdma_th[t].ret
           func_id == set_initial_regs_ret(err, qdma_read_reg(qdma_hw, QDMA_REG_FUNC_ID))
       IN  IF func_id < 0
           THEN /\ qdev' = [qdev EXCEPT !.func_id = func_id]
                /\ qdma_th' = [qdma_th EXCEPT ![t].pc = "done", ![t].fmap_err = err,
                                              ![t].ret = -1]
           ELSE /\ qdev' = alloc_queues([qdev EXCEPT !.func_id = func_id], h2c_ok, c2h_ok)
                /\ qdma_th' = [qdma_th EXCEPT
                       ![t].pc = "done", ![t].fmap_err = err,
                       ![t].ret = IF h2c_ok /\ c2h_ok THEN 0 ELSE -ENOMEM]
    /\ UNCHANGED <<qdma_hw, qdma_log>>
    /\ UNCHANGED <<xleafVars, dmaVars, xdma_init, xdma_ctx, libVars>>

(***************************************************************************)
(* Inputs of the amdmqdma model.                                           *)
(***************************************************************************)
CtxtSels == {QDMA_CTXT_SEL_SW_C2H, QDMA_CTXT_SEL_FMAP}
FuncIds == {0, 3}
CtxtData ==
    {[index \in 0 .. QDMA_IND_CTXT_DATA_NUM_REGS - 1 |-> index + 1],
     [index \in 0 .. QDMA_IND_CTXT_DATA_NUM_REGS - 1 |-> U32_MAX - index]}
CtxtCounts == 0 .. QDMA_IND_CTXT_DATA_NUM_REGS
FmapConfigs == [qbase : {0, 16, GENMASK(10, 0)}, qmax : {0, 32, GENMASK(11, 0)}]
PollIntervals == {0, 1, 2}
PollTimeouts == {0, 1, 2, 5}
PollValues == {0, QDMA_REG_IND_CTXT_CMD_BUSY_MASK}

(***************************************************************************)
(* xdma_set_vector_reg of the dmaengine driver: irq_num interrupt numbers  *)
(* from irq_start on go into the vector registers from vec_tbl_start on,   *)
(* four to a register.  The numbers are below 2 ^ XDMA_IRQ_VEC_SHIFT, so   *)
(* each shifted number has its byte of val to itself and the OR is a sum.  *)
(***************************************************************************)
XDMA_IRQ_VEC_SHIFT == 8
XDMA_IRQ_USER_VEC_NUM == 128
XDMA_IRQ_CHAN_VEC_NUM == 160
MaxIrqNum == 8

\* the loop from round st.i on; st = [i, vec_tbl_start, irq_start, val,
\* writes, ret]; fail is the write of the call that fails, 0 for none
RECURSIVE set_vector_loop(_, _, _)
set_vector_loop(st, irq_num, fail) ==
    IF st.i >= irq_num THEN [st EXCEPT !.ret = 0]
    ELSE LET shift == XDMA_IRQ_VEC_SHIFT * (st.i % 4)
             val == st.val + st.irq_start * 2 ^ shift
         IN  IF (st.i + 1) % 4 # 0
             THEN set_vector_loop([st EXCEPT !.i = @ + 1, !.val = val,
                                             !.irq_start = @ + 1], irq_num, fail)
             ELSE IF fail = Len(st.writes) + 1
                  THEN [st EXCEPT !.ret = -EIO]
                  ELSE set_vector_loop(
                           [st EXCEPT !.i = @ + 1, !.val = 0, !.irq_start = @ + 1,
                                      !.writes = Append(@, [reg |-> st.vec_tbl_start,
                                                            val |-> val]),
                                      !.vec_tbl_start = @ + sizeof_u32],
                           irq_num, fail)

\* xdma_set_vector_reg: [ret, writes]
xdma_set_vector_reg(vec_tbl_start, irq_start, irq_num, fail) ==
    LET r == set_vector_loop([i |-> 0, vec_tbl_start |-> vec_tbl_start,
                              irq_start |-> irq_start, val |-> 0,
                              writes |-> << >>, ret |-> 0], irq_num, fail)
    IN  [ret |-> r.ret, writes |-> r.writes]

\* no call yet
VecIdle ==
    [vec_tbl_start |-> 0, irq_start |-> 0, irq_num |-> 0, called |-> FALSE,
     ret |-> 0, writes |-> << >>]

\* the arguments of a call
VecCalls ==
    [vec_tbl_start : {XDMA_IRQ_CHAN_VEC_NUM, XDMA_IRQ_USER_VEC_NUM},
     irq_start : {0, 1, 5}, irq_num : 0 .. MaxIrqNum, called : {FALSE},
     ret : {0}, writes : {<< >>}]

\* a call of xdma_set_vector_reg with the arguments of xdma_vec
SetVectorReg(fail) ==
    /\ ~xdma_vec.called
    /\ LET r == xdma_set_vector_reg(xdma_vec.vec_tbl_start, xdma_vec.irq_start,
                                    xdma_vec.irq_num, fail)
       IN  /\ fail > 0 => r.ret # 0
           /\ xdma_vec' = [xdma_vec EXCEPT !.called = TRUE, !.ret = r.ret,
                                           !.writes = r.writes]
    /\ UNCHANGED <<xg, spool>>
    /\ UNCHANGED <<xleafVars, dmaVars, qdmaVars, xdma_init, xdma_ctx>>

(***************************************************************************)
(* The group driver (lib/group.c).                                         *)
(***************************************************************************)
EEXIST == 17
ECHILD == 10
NumGrpCallers == 2
GrpCallers == 1 .. NumGrpCallers

XRT_GROUP_INIT_CHILDREN == "XRT_GROUP_INIT_CHILDREN"
XRT_GROUP_FINI_CHILDREN == "XRT_GROUP_FINI_CHILDREN"

\* the group after xrt_grp_probe: lock is the owner of xg->lock, 0 for
\* none; pc, cmd and ret are the position of each caller of the leaf call,
\* its command, and what its last call returned
GrpIdle ==
    [lock |-> 0, leaves_created |-> FALSE,
     pc |-> [t \in GrpCallers |-> "idle"],
     cmd |-> [t \in GrpCallers |-> XRT_GROUP_INIT_CHILDREN],
     ret |-> [t \in GrpCallers |-> 0]]

\* the caller has returned with ret
grp_return(g, t, ret) == [g EXCEPT !.pc[t] = "idle", !.ret[t] = ret]

\* mutex_unlock(&xg->lock)
grp_mutex_unlock(g) == [g EXCEPT !.lock = 0]

\* xrt_grp_create_leaves from behind mutex_lock to its return.  dtb: the
\* metadata has a device tree blob (xrt_md_get_prop returned 0);
\* unflattened: of_fdt_unflatten_tree returned memory; failed: a leaf could
\* not be created
xrt_grp_create_leaves(g, t, dtb, unflattened, failed) ==
    IF g.leaves_created
    THEN grp_return(grp_mutex_unlock(g), t, -EEXIST)
    ELSE IF dtb /\ ~unflattened
    THEN grp_return(g, t, -EINVAL)
    ELSE grp_return(grp_mutex_unlock([g EXCEPT !.leaves_created = TRUE]), t,
                    IF failed THEN -ECHILD ELSE 0)

\* xrt_grp_remove_leaves from behind mutex_lock to its return
xrt_grp_remove_leaves(g, t) ==
    IF ~g.leaves_created
    THEN grp_return(grp_mutex_unlock(g), t, 0)
    ELSE grp_return(grp_mutex_unlock([g EXCEPT !.leaves_created = FALSE]), t, 0)

\* xrt_grp_leaf_call with cmd; pdata: the device has platform data
GrpCall(t, cmd, pdata) ==
    /\ xg.pc[t] = "idle"
    /\ xg' = IF cmd = XRT_GROUP_INIT_CHILDREN /\ ~pdata
             THEN [grp_return(xg, t, -EINVAL) EXCEPT !.cmd[t] = cmd]
             ELSE [xg EXCEPT !.pc[t] = "lock", !.cmd[t] = cmd]
    /\ UNCHANGED <<xdma_vec, spool>>
    /\ UNCHANGED <<xleafVars, dmaVars, qdmaVars, xdma_init, xdma_ctx>>

\* mutex_lock(&xg->lock) returns
GrpLock(t) ==
    /\ xg.pc[t] = "lock"
    /\ xg.lock = 0
    /\ xg' = [xg EXCEPT !.lock = t, !.pc[t] = "locked"]
    /\ UNCHANGED <<xdma_vec, spool>>
    /\ UNCHANGED <<xleafVars, dmaVars, qdmaVars, xdma_init, xdma_ctx>>

GrpCreateLeaves(t, dtb, unflattened, failed) ==
    /\ xg.pc[t] = "locked"
    /\ xg.cmd[t] = XRT_GROUP_INIT_CHILDREN
    /\ xg' = xrt_grp_create_leaves(xg, t, dtb, unflattened, failed)
    /\ UNCHANGED <<xdma_vec, spool>>
    /\ UNCHANGED <<xleafVars, dmaVars, qdmaVars, xdma_init, xdma_ctx>>

GrpRemoveLeaves(t) ==
    /\ xg.pc[t] = "locked"
    /\ xg.cmd[t] = XRT_GROUP_FINI_CHILDREN
    /\ xg' = xrt_grp_remove_leaves(xg, t)
    /\ UNCHANGED <<xdma_vec, spool>>
    /\ UNCHANGED <<xleafVars, dmaVars, qdmaVars, xdma_init, xdma_ctx>>

(***************************************************************************)
(* The subdev pool (lib/subdev.c).                                         *)
(***************************************************************************)
NumSubdevs == 1
NumPoolCallers == 2
MaxHolds == 1
MaxGets == 2
Subdevs == 1 .. NumSubdevs
PoolCallers == 1 .. NumPoolCallers
PoolOps == {"add", "del", "get", "put", "fini"}

\* the pool after xrt_subdev_pool_init.  xsp_lock is the owner of the mutex,
\* 0 for none; holders[s] is the reference count of the one holder in
\* xs_holder_list of subdev s (0: the list is empty) and comp[s] the count of
\* xs_holder_comp; pc, op, sdev and rc are the position of each caller, the
\* function it is in, the subdev it works on and what its wait returned;
\* unheld is the set of functions that have unlocked xsp_lock without
\* owning it, gets the number of xrt_subdev_pool_get calls made
PoolIdle ==
    [xsp_lock |-> 0, xsp_closing |-> FALSE, xsp_dev_list |-> <<>>,
     holders |-> [s \in Subdevs |-> 0],
     comp |-> [s \in Subdevs |-> 0],
     pc |-> [t \in PoolCallers |-> "idle"],
     op |-> [t \in PoolCallers |-> "add"],
     sdev |-> [t \in PoolCallers |-> 1],
     rc |-> [t \in PoolCallers |-> 0],
     unheld |-> {}, gets |-> 0]

InDevList(sp, s) == \E i \in 1 .. Len(sp.xsp_dev_list) : sp.xsp_dev_list[i] = s

\* list_del(&sdev->xs_dev_list) and xrt_subdev_destroy(sdev)
pool_list_del(sp, s) ==
    [sp EXCEPT !.xsp_dev_list = SelectSeq(@, LAMBDA x : x # s)]

\* mutex_unlock(lk) by caller t.  Unlocking a mutex that t does not own is
\* recorded in unheld; stolen: the unlock takes the mutex from its owner
pool_mutex_unlock(sp, t, stolen) ==
    IF sp.xsp_lock = t
    THEN [sp EXCEPT !.xsp_lock = 0]
    ELSE [sp EXCEPT !.unheld = @ \cup {sp.op[t]},
                    !.xsp_lock = IF stolen THEN 0 ELSE @]

pool_return(sp, t) == [sp EXCEPT !.pc[t] = "idle"]

\* list_empty(&sdev->xs_holder_list); freed_empty is what the test reads
\* when another caller has destroyed the subdev
holder_list_empty(sp, s, freed_empty) ==
    IF InDevList(sp, s) THEN sp.holders[s] = 0 ELSE freed_empty

\* xrt_subdev_pool_wait_for_holders at the test of its loop, and past it
\* what its caller does: xrt_subdev_pool_fini goes on with its own loop,
\* xrt_subdev_pool_del leaves
wait_for_holders(sp, t, stolen, freed_empty) ==
    LET s == sp.sdev[t]
    IN  IF ~holder_list_empty(sp, s, freed_empty)
        THEN [pool_mutex_unlock(sp, t, stolen) EXCEPT !.pc[t] = "wait"]
        ELSE IF sp.op[t] = "fini"
        THEN [pool_list_del(sp, s) EXCEPT !.pc[t] = "loop"]
        ELSE pool_return(pool_mutex_unlock(pool_list_del(sp, s), t, stolen), t)

\* xrt_subdev_hold
xrt_subdev_hold(sp, s) ==
    [sp EXCEPT !.holders[s] = @ + 1, !.gets = @ + 1]

\* xrt_subdev_release
xrt_subdev_release(sp, s) ==
    IF sp.holders[s] = 0
    THEN sp
    ELSE [sp EXCEPT !.holders[s] = @ - 1,
                    !.comp[s] = IF sp.holders[s] = 1 THEN @ + 1 ELSE @]

\* the part of each function between its mutex_lock and its next
\* mutex_unlock, wait or return
pool_locked(sp, t, stolen, freed_empty) ==
    LET s == sp.sdev[t]
        unlock_return(p) == pool_return(pool_mutex_unlock(p, t, stolen), t)
    IN  CASE sp.op[t] = "fini" ->
               IF sp.xsp_closing
               THEN unlock_return(sp)
               ELSE [pool_mutex_unlock([sp EXCEPT !.xsp_closing = TRUE], t, stolen)
                        EXCEPT !.pc[t] = "loop"]
          [] sp.op[t] = "del" ->
               IF sp.xsp_closing \/ ~InDevList(sp, s)
               THEN unlock_return(sp)
               ELSE wait_for_holders(sp, t, stolen, freed_empty)
          [] sp.op[t] = "get" ->
               unlock_return(IF InDevList(sp, s) THEN xrt_subdev_hold(sp, s) ELSE sp)
          [] sp.op[t] = "put" ->
               unlock_return(IF InDevList(sp, s) THEN xrt_subdev_release(sp, s) ELSE sp)
          [] sp.op[t] = "add" ->
               unlock_return(IF sp.xsp_closing
                             THEN sp
                             ELSE [sp EXCEPT !.xsp_dev_list = <<s>> \o @,
                                             !.holders[s] = 0,
                                             !.comp[s] = 0])

\* a caller enters one of the functions of the pool, up to its mutex_lock
\* (xrt_subdev_pool_add creates a subdev that the pool does not hold)
PoolCall(t, op, s) ==
    /\ spool.pc[t] = "idle"
    /\ op = "add" => ~InDevList(spool, s)
    /\ op = "get" => spool.gets < MaxGets /\ spool.holders[s] < MaxHolds
    /\ spool' = [spool EXCEPT !.pc[t] = "lock", !.op[t] = op, !.sdev[t] = s,
                              !.rc[t] = 0]
    /\ UNCHANGED <<xdma_vec, xg>>
    /\ UNCHANGED <<xleafVars, dmaVars, qdmaVars, xdma_init, xdma_ctx>>

\* mutex_lock(lk) returns, at the head of a function or behind the wait
PoolLock(t) ==
    /\ spool.pc[t] \in {"lock", "relock"}
    /\ spool.xsp_lock = 0
    /\ spool' = [spool EXCEPT !.xsp_lock = t,
                              !.pc[t] = IF @ = "lock" THEN "locked" ELSE "relocked"]
    /\ UNCHANGED <<xdma_vec, xg>>
    /\ UNCHANGED <<xleafVars, dmaVars, qdmaVars, xdma_init, xdma_ctx>>

PoolLocked(t, stolen, freed_empty) ==
    /\ spool.pc[t] = "locked"
    /\ spool' = pool_locked(spool, t, stolen, freed_empty)
    /\ UNCHANGED <<xdma_vec, xg>>
    /\ UNCHANGED <<xleafVars, dmaVars, qdmaVars, xdma_init, xdma_ctx>>

\* the loop of xrt_subdev_pool_fini, which calls
\* xrt_subdev_pool_wait_for_holders behind its mutex_unlock
PoolFiniLoop(t, stolen, freed_empty) ==
    /\ spool.pc[t] = "loop"
    /\ spool' = IF spool.xsp_dev_list = <<>>
                THEN pool_return(spool, t)
                ELSE wait_for_holders([spool EXCEPT !.sdev[t] = Head(spool.xsp_dev_list)],
                                      t, stolen, freed_empty)
    /\ UNCHANGED <<xdma_vec, xg>>
    /\ UNCHANGED <<xleafVars, dmaVars, qdmaVars, xdma_init, xdma_ctx>>

\* wait_for_completion_killable returns: the completion was completed, or
\* the caller was killed
PoolWait(t, killed) ==
    LET s == spool.sdev[t]
    IN  /\ spool.pc[t] = "wait"
        /\ killed \/ spool.comp[s] > 0 \/ ~InDevList(spool, s)
        /\ spool' = [spool EXCEPT
               !.pc[t] = "relock",
               !.rc[t] = IF killed THEN -ERESTARTSYS ELSE 0,
               !.comp[s] = IF ~killed /\ @ > 0 THEN @ - 1 ELSE @]
        /\ UNCHANGED <<xdma_vec, xg>>
        /\ UNCHANGED <<xleafVars, dmaVars, qdmaVars, xdma_init, xdma_ctx>>

\* behind the mutex_lock of xrt_subdev_pool_wait_for_holders: the holders
\* are freed when the wait was killed, and the loop tests again
PoolRelocked(t, stolen, freed_empty) ==
    LET s == spool.sdev[t]
        freed == IF spool.rc[t] = -ERESTARTSYS
                 THEN [spool EXCEPT !.holders[s] = 0]
                 ELSE spool
    IN  /\ spool.pc[t] = "relocked"
        /\ spool' = wait_for_holders(freed, t, stolen, freed_empty)
        /\ UNCHANGED <<xdma_vec, xg>>
        /\ UNCHANGED <<xleafVars, dmaVars, qdmaVars, xdma_init, xdma_ctx>>

\* nothing of the library is in use
InitLib ==
    /\ xdma_vec = VecIdle
    /\ xg = GrpIdle
    /\ spool = PoolIdle

(***************************************************************************)
(* Specifications.                                                         *)
(*   SpecPool: PoolThreads callers of xdma_acquire_channel and             *)
(*             xdma_release_channel                                        *)
(*   Spec:     a caller of xdma_request_submit and the engine              *)
(*   SpecXfer: a request on a channel of the dmaengine driver              *)
(***************************************************************************)
InitPool == InitXleaf(1 .. PoolThreads) /\ InitDma /\ InitQdma /\ InitLib

NextPool ==
    \E t \in 1 .. PoolThreads :
        \/ \E d \in Dirs : AcquireCall(t, d)
        \/ Down(t)
        \/ DownKilled(t, "idle")
        \/ Scan(t, "held", "idle")
        \/ ReleaseCall(t)
        \/ ReleaseSetBit(t)
        \/ ReleaseUp(t, "idle")

SpecPool == InitPool /\ [][NextPool]_vars

\* one caller runs one request; callers that compete for the channels are
\* the subject of SpecPool
Submitters == {1}

Init == InitXleaf(Submitters) /\ InitDma /\ InitQdma /\ InitLib

Next ==
    \/ \E t \in Submitters :
          \/ \E r \in Requests : Submit(t, r)
          \/ Down(t)
          \/ Scan(t, "start", "done")
          \/ \E fail \in 0 .. 3 : Start(t, fail)
          \/ WaitDone(t)
          \/ WaitTimeout(t)
          \/ \E fail \in BOOLEAN : ReadCount(t, fail)
          \/ \E fails \in SUBSET {"status", "w1c"} : PassEnd(t, fails)
          \/ ReleaseSetBit(t)
          \/ ReleaseUp(t, "done")
    \/ \E c \in ChanIdx : \E n \in CompletedCounts(c) : HwComplete(c, n)

Spec == Init /\ [][Next]_vars

InitXfer == InitXleaf(Submitters) /\ InitDma /\ InitQdma /\ InitLib

NextXfer ==
    \/ \E sgl \in SgLists \ {<< >>} : \E dir \in Dirs : PrepSubmit(sgl, dir)
    \/ \E fail \in 0 .. 5 : \E stray \in StrayChoices(IssuedChan) :
          \E wrap \in WrapChoices(IssuedChan) : IssuePending(fail, stray, wrap)
    \/ ChannelIsr
    \/ \E fail \in 0 .. 5 : \E stray \in StrayChoices(TaskletChan) :
          \E wrap \in WrapChoices(TaskletChan) : ChannelTasklet(fail, stray, wrap)

SpecXfer == InitXfer /\ [][NextXfer]_vars

(***************************************************************************)
(*   SpecProbe: xdma_init_channels on every assignment of identifiers to   *)
(*              the windows, then one caller of acquire and release        *)
(*   SpecIrq:   one request through xdma_issue_pending, xdma_channel_isr   *)
(*              and xdma_channel_tasklet with vchan.lock, on NumCpus       *)
(*              processors; every step that can be taken is taken          *)
(***************************************************************************)
InitProbe == InitUnprobed(Submitters) /\ InitDma /\ InitQdma /\ InitLib

NextProbe ==
    \/ \E ids \in WindowIds : \E irq_fail \in BOOLEAN : \E uninit \in UninitRets :
          InitChannels(ids, NoSetupFail, irq_fail, uninit)
    \/ \E t \in Submitters :
          /\ Probed
          /\ \/ \E d \in Dirs : AcquireCall(t, d)
             \/ Down(t)
             \/ Scan(t, "held", "idle")
             \/ ReleaseCall(t)
             \/ ReleaseSetBit(t)
             \/ ReleaseUp(t, "idle")

SpecProbe == InitProbe /\ [][NextProbe]_vars

\* requests of SpecIrq: every list of segments of one direction
InitIrq == InitXleaf(Submitters) /\ InitDma /\ InitQdma /\ InitLib

NextIrq ==
    \/ \E sgl \in SgLists \ {<< >>} : PrepSubmit(sgl, xdma_chan.dir)
    \/ \E cpu \in Cpus : IssueEnter(cpu)
    \/ IssueLock
    \/ \E stray \in StrayChoices(IssuedChan) : \E wrap \in WrapChoices(IssuedChan) :
          IssueLocked(0, stray, wrap)
    \/ IssueUnlock
    \/ \E cpu \in Cpus : IsrEnter(cpu)
    \/ IsrLock
    \/ IsrLocked
    \/ IsrUnlock
    \/ TaskletEnter
    \/ TaskletLock
    \/ \E stray \in StrayChoices(TaskletChan) : \E wrap \in WrapChoices(TaskletChan) :
          TaskletLocked(0, stray, wrap)
    \/ TaskletUnlock

\* a context that holds vchan.lock and has the processor reaches its unlock
Proceeds(k) ==
    /\ xdma_ctx.pc[k] = "locked"
    /\ Runnable(k)
    /\ xdma_ctx' = [xdma_ctx EXCEPT !.pc[k] = "unlock"]

\* the steps of a context inside a handler: a processor goes on with the
\* context it runs, and a spinning context gets the lock once it is free
ContextSteps ==
    \/ IssueLock \/ Proceeds("issue") \/ IssueUnlock
    \/ IsrLock \/ IsrLocked \/ IsrUnlock
    \/ TaskletLock \/ Proceeds("tasklet") \/ TaskletUnlock

SpecIrq == InitIrq /\ [][NextIrq]_vars /\ WF_xdma_ctx(ContextSteps)

(***************************************************************************)
(*   SpecCtxt: NumCtxtCallers concurrent callers of                        *)
(*             qdma_cpm5_indirect_reg_write and the device                 *)
(*   SpecQdma: one caller of qdma_cpm5_indirect_reg_write,                 *)
(*             qdma_cpm5_fmap_context_write, hw_monitor_reg or qdma_init   *)
(***************************************************************************)
InitCtxt == InitXleaf(Submitters) /\ InitDma /\ InitQdma /\ InitLib

NextCtxt ==
    \/ \E t \in CtxtCallers :
          \/ \E sel \in CtxtSels : \E cnt \in {1, QDMA_IND_CTXT_DATA_NUM_REGS} :
                CtxtCall(t, sel, t, CHOOSE data \in CtxtData : data[0] = 1, cnt)
          \/ SpinLock(t)
          \/ WriteReg(t)
          \/ PollRead(t)
          \/ \E wraps \in OverflowChoices(t) : PollDelay(t, wraps)
          \/ PollFinal(t)
          \/ CtxtUnlock(t)
    \/ CtxtHwDone

SpecCtxt == InitCtxt /\ [][NextCtxt]_vars

QdmaCaller == CHOOSE t \in CtxtCallers : \A u \in CtxtCallers : t <= u

InitQdmaOne ==
    /\ InitXleaf(Submitters)
    /\ InitDma
    /\ InitLib
    /\ \E max_dma_channels \in {1, 32} : \E func_id \in FuncIds : \E mm_en \in BOOLEAN :
          InitQdmaDev(max_dma_channels, func_id, mm_en)

NextQdma ==
    \/ \E sel \in CtxtSels : \E func_id \in FuncIds : \E data \in CtxtData :
          \E cnt \in CtxtCounts : CtxtCall(QdmaCaller, sel, func_id, data, cnt)
    \/ \E func_id \in FuncIds : \E config \in FmapConfigs : \E config_null \in BOOLEAN :
          FmapCall(QdmaCaller, func_id, config, config_null)
    \/ \E val \in PollValues : \E interval_us \in PollIntervals :
          \E timeout_us \in PollTimeouts :
             MonitorCall(QdmaCaller, QDMA_REG_IND_CTXT_CMD_BUSY_MASK, val,
                         interval_us, timeout_us)
    \/ \E h2c_ok \in BOOLEAN : \E c2h_ok \in BOOLEAN : InitCall(QdmaCaller, h2c_ok, c2h_ok)
    \/ SpinLock(QdmaCaller)
    \/ WriteReg(QdmaCaller)
    \/ PollRead(QdmaCaller)
    \/ \E wraps \in OverflowChoices(QdmaCaller) : PollDelay(QdmaCaller, wraps)
    \/ PollFinal(QdmaCaller)
    \/ CtxtUnlock(QdmaCaller)
    \/ \E h2c_ok \in BOOLEAN : \E c2h_ok \in BOOLEAN : InitReturn(QdmaCaller, h2c_ok, c2h_ok)
    \/ CtxtHwDone
    \/ PolledBitChanges

SpecQdma == InitQdmaOne /\ [][NextQdma]_vars

(***************************************************************************)
(* Properties of the channel pool and of xdma_request_submit.              *)
(***************************************************************************)
Callers == DOMAIN th

\* the caller has a channel index from xdma_acquire_channel and has not yet
\* set its bit back
HoldsChannel(t) == th[t].pc \in {"held", "start", "wait", "count", "passend", "release"}

\* the caller has taken a permit of the semaphore and not yet given it back
HoldsPermit(t) == HoldsChannel(t) \/ th[t].pc \in {"scan", "up"}

Holders(d) == {t \in Callers : th[t].dir = d /\ HoldsChannel(t)}
PermitHolders(d) == {t \in Callers : th[t].dir = d /\ HoldsPermit(t)}
ClearedBits(d) == (0 .. (chan_info[d].channel_num - 1)) \ chan_info[d].channel_bitmap

\* C1: no two callers hold the same channel index at the same time: an index
\* returned by xdma_acquire_channel is not returned again before its holder
\* has released it.
C1_ExclusiveChannel ==
    \A t1, t2 \in Callers :
        (t1 # t2 /\ HoldsChannel(t1) /\ HoldsChannel(t2))
            => th[t1].channel_index # th[t2].channel_index

\* two callers of the same direction hold a channel each at the same time
C1_Witness ==
    \E t1, t2 \in Callers :
        /\ t1 # t2
        /\ th[t1].pc = "held" /\ th[t2].pc = "held"
        /\ th[t1].dir = H2C /\ th[t2].dir = H2C
        /\ th[t1].channel_index # th[t2].channel_index
        /\ Cardinality(ClearedBits(H2C)) = 2

\* C2 as stated: in every state the semaphore count plus the number of
\* channels acquired and not yet released equals channel_num.
C2_CountPlusHeld ==
    \A d \in Dirs :
        chan_info[d].channel_sem + Cardinality(Holders(d)) = chan_info[d].channel_num

\* C2 amended: the semaphore count plus the number of callers that hold a
\* permit (from down() to up()) equals channel_num in every state; the count
\* plus the number of held channels never exceeds channel_num and equals it
\* whenever no caller is inside xdma_acquire_channel or xdma_release_channel;
\* so at most channel_num channels are held.
C2_CountPlusPermits ==
    \A d \in Dirs :
        /\ chan_info[d].channel_sem + Cardinality(PermitHolders(d)) = chan_info[d].channel_num
        /\ chan_info[d].channel_sem + Cardinality(Holders(d)) <= chan_info[d].channel_num
        /\ (\A t \in Callers : th[t].dir = d => th[t].pc \notin {"scan", "up"})
               => chan_info[d].channel_sem + Cardinality(Holders(d)) = chan_info[d].channel_num
        /\ ClearedBits(d) = {th[t].channel_index - chan_info[d].start_index : t \in Holders(d)}

\* every permit of a direction is out and the next caller waits in down()
C2_Witness ==
    \E d \in Dirs :
        /\ chan_info[d].channel_sem = 0
        /\ Cardinality(Holders(d)) = chan_info[d].channel_num
        /\ \E t \in Callers : th[t].dir = d /\ th[t].pc = "down"

\* C3: a pass whose completion wait timed out makes xdma_request_submit
\* return a non-zero error.
C3_TimeoutIsError ==
    \A t \in Callers :
        (th[t].pc = "done" /\ th[t].g_timeout) => th[t].result # 0

\* C4: a completed-descriptor count that differs from submitted_desc_count
\* makes xdma_request_submit return a non-zero error.
C4_MismatchIsError ==
    \A t \in Callers :
        (th[t].pc = "done" /\ th[t].g_mismatch) => th[t].result # 0

EndpointOf(type, desc) ==
    IF type = H2C THEN Join64(desc.dst_addr_lo, desc.dst_addr_hi)
    ELSE Join64(desc.src_addr_lo, desc.src_addr_hi)

\* C8: the device-side address in the first descriptor of pass i+1 is
\* req->endpoint_addr plus the bytes the engine completed in passes 1..i.
C8_EndpointFollowsCompleted ==
    \A t \in Callers :
        (th[t].pc = "wait" /\ th[t].g_passes >= 2)
            => EndpointOf(channels[th[t].channel_index].type,
                          channels[th[t].channel_index].descs[0])
                   = th[t].req.endpoint_addr + th[t].g_prev_hw

(***************************************************************************)
(* Properties of the chain builder of the dmaengine driver.                *)
(***************************************************************************)
CeilDiv(a, b) == (a + b - 1) \div b

\* descriptors a list needs: ceil(len / XDMA_DESC_BLEN_MAX) per segment
RECURSIVE Demand(_)
Demand(sgl) ==
    IF Len(sgl) = 0 THEN 0
    ELSE CeilDiv(sgl[1].len, XDMA_DESC_BLEN_MAX) + Demand(Tail(sgl))

\* the (address, length) pieces of one segment, and of a list, in order
RECURSIVE ChopSeg(_, _)
ChopSeg(addr, len) ==
    IF len = 0 THEN << >>
    ELSE IF len > XDMA_DESC_BLEN_MAX
         THEN <<[addr |-> addr, len |-> XDMA_DESC_BLEN_MAX]>> \o
              ChopSeg(addr + XDMA_DESC_BLEN_MAX, len - XDMA_DESC_BLEN_MAX)
         ELSE <<[addr |-> addr, len |-> len]>>

RECURSIVE Chop(_)
Chop(sgl) ==
    IF Len(sgl) = 0 THEN << >> ELSE ChopSeg(sgl[1].addr, sgl[1].len) \o Chop(Tail(sgl))

\* host side and device side of a descriptor of a channel of direction dir
HostOf(dir, desc) ==
    IF dir = H2C THEN Join64(desc.src_addr_lo, desc.src_addr_hi)
    ELSE Join64(desc.dst_addr_lo, desc.dst_addr_hi)

DeviceOf(dir, desc) ==
    IF dir = H2C THEN Join64(desc.dst_addr_lo, desc.dst_addr_hi)
    ELSE Join64(desc.src_addr_lo, desc.src_addr_hi)

HostPairs(dir, ds) == [k \in 1 .. Len(ds) |-> [addr |-> HostOf(dir, ds[k]), len |-> ds[k].bytes]]

RECURSIVE Flatten(_)
Flatten(ss) == IF Len(ss) = 0 THEN << >> ELSE ss[1] \o Flatten(Tail(ss))

RECURSIVE SumBytes(_)
SumBytes(ds) == IF Len(ds) = 0 THEN 0 ELSE ds[1].bytes + SumBytes(Tail(ds))

IsPrefix(a, b) == Len(a) <= Len(b) /\ \A k \in 1 .. Len(a) : a[k] = b[k]

Flagged(desc) == {XDMA_DESC_STOPPED, XDMA_DESC_COMPLETED} \subseteq desc.control.flags
Unflagged(desc) == desc.control.flags \cap {XDMA_DESC_STOPPED, XDMA_DESC_COMPLETED} = {}

\* the cursor of the request is NULL: the request is complete, or its sgl is NULL
CursorNull ==
    /\ xdma_trace.prepared
    /\ Len(xdma_chan.submitted) = 0
    /\ Len(xdma_chan.issued) > 0 => xdma_chan.issued[1].sg = NULL

\* the first call of xdma_xfer_start that reached the descriptor loop has
\* returned and no later one has run
AfterFirstPass == Len(xdma_trace.passes) = 1

\* the last filled descriptor carries STOPPED and COMPLETED, the earlier
\* descriptors of the pass carry neither
LastOnlyFlagged ==
    LET f == xdma_trace.filled
    IN  \A k \in 1 .. Len(f) :
            IF k = Len(f) THEN Flagged(xdma_chan.descs[f[k]])
            ELSE Unflagged(xdma_chan.descs[f[k]])

\* C6: a list whose total length is at most XDMA_DESC_BLOCK_NUM x
\* XDMA_DESC_ADJACENT x XDMA_DESC_BLEN_MAX is consumed by one pass (req->sgl
\* is NULL afterwards), the last filled descriptor carries STOPPED and
\* COMPLETED and the earlier ones neither.
C6_OnePassByLength ==
    (AfterFirstPass /\
     SumLen(xdma_trace.sgl) <= XDMA_DESC_BLOCK_NUM * XDMA_DESC_ADJACENT * XDMA_DESC_BLEN_MAX)
        => CursorNull /\ LastOnlyFlagged

\* C7: over the passes of a request the descriptors written describe every
\* byte of every segment exactly once and in list order; when the request
\* took more than one pass their lengths sum to the total length of the list.
C7_EveryByteOnce ==
    xdma_trace.prepared =>
        LET all == Flatten(xdma_trace.passes)
            pairs == HostPairs(xdma_chan.dir, all)
        IN  /\ IsPrefix(pairs, Chop(xdma_trace.sgl))
            /\ (CursorNull /\ Len(xdma_trace.passes) > 1)
                   => /\ pairs = Chop(xdma_trace.sgl)
                      /\ SumBytes(all) = SumLen(xdma_trace.sgl)

\* a request of two started passes, the second from the tasklet, is complete
C7_Witness ==
    /\ xdma_chan.completed = 1
    /\ Len(xdma_trace.passes) = 2
    /\ xdma_trace.started = <<TRUE, TRUE>>
    /\ Len(xdma_trace.passes[1]) = XDMA_DESC_NUM
    /\ Len(xdma_trace.passes[2]) > 0

\* C9: the k-th descriptor of the request carries on its device side
\* req->slave_addr plus the lengths of the descriptors emitted before it, and
\* on its host side the address of its piece of the segment.
C9_DeviceAddressAdvances ==
    xdma_trace.prepared =>
        LET all == Flatten(xdma_trace.passes)
        IN  \A k \in 1 .. Len(all) :
                /\ DeviceOf(xdma_chan.dir, all[k]) =
                       xdma_chan.cfg_addr + SumBytes(SubSeq(all, 1, k - 1))
                /\ k <= Len(Chop(xdma_trace.sgl))
                       => HostOf(xdma_chan.dir, all[k]) = Chop(xdma_trace.sgl)[k].addr

(***************************************************************************)
(* The walk of the engine over a chain: left adjacent descriptors from     *)
(* index idx, then the next pointer and the adjacency of the last one, up  *)
(* to a descriptor with STOPPED and COMPLETED.  ok is FALSE when the walk  *)
(* leaves the descriptor memory or meets a word without the magic.         *)
(***************************************************************************)
DescIndex(bus) == (bus - DescBase) \div XDMA_DESC_SIZE

RECURSIVE Walk(_, _, _, _, _)
Walk(descs, idx, left, fuel, acc) ==
    IF fuel = 0 \/ idx \notin DOMAIN descs \/ left < 1
    THEN [ok |-> FALSE, descs |-> acc]
    ELSE LET d == descs[idx]
         IN  IF d.control.magic # XDMA_DESC_MAGIC
             THEN [ok |-> FALSE, descs |-> acc]
             ELSE IF Flagged(d)
                  THEN [ok |-> TRUE, descs |-> Append(acc, d)]
                  ELSE IF left > 1
                       THEN Walk(descs, idx + 1, left - 1, fuel - 1, Append(acc, d))
                       ELSE Walk(descs, DescIndex(Join64(d.next_lo, d.next_hi)),
                                 d.control.adj + 1, fuel - 1, Append(acc, d))

WalkChain ==
    Walk(xdma_chan.descs, DescIndex(block_dma_addr(0)), xdma_chan.desc_nums[0],
         XDMA_DESC_NUM + 1, << >>)

\* C10: for a list that fits one pass the walk of the chain from block 0 up
\* to the STOPPED|COMPLETED descriptor yields exactly the pieces of the list
\* in order, each of a length in 1..XDMA_DESC_BLEN_MAX.
C10_RoundTrip ==
    (AfterFirstPass /\ Demand(xdma_trace.sgl) <= XDMA_DESC_NUM)
        => /\ WalkChain.ok
           /\ HostPairs(xdma_chan.dir, WalkChain.descs) = Chop(xdma_trace.sgl)
           /\ \A k \in 1 .. Len(WalkChain.descs) :
                  WalkChain.descs[k].bytes \in 1 .. XDMA_DESC_BLEN_MAX

\* the descriptors the whole list asks of xrt_xdma_start when the first pass
\* of the caller consumed it
XleafFirstPassWhole(t) ==
    /\ th[t].pc = "wait"
    /\ th[t].g_passes = 1
    /\ th[t].sg = NULL

\* C11: a zero-length segment is skipped without a descriptor, by
\* xrt_xdma_start and by xdma_xfer_start: the descriptors emitted for a list
\* are as many as for the list without its zero-length segments, that is
\* ceil(len / XDMA_DESC_BLEN_MAX) for each segment.
C11_ZeroLengthSkipped ==
    /\ \A t \in Callers :
           XleafFirstPassWhole(t)
               => channels[th[t].channel_index].submitted_desc_count = Demand(th[t].req.sgl)
    /\ (CursorNull /\ Len(xdma_trace.passes) >= 1)
           => Len(Flatten(xdma_trace.passes)) = Demand(xdma_trace.sgl)

\* the blocks that hold a descriptor of the last pass, and the last
\* descriptor of such a block
UsedBlocks == {xdma_trace.filled[k] \div XDMA_DESC_ADJACENT : k \in 1 .. Len(xdma_trace.filled)}
LastOfBlock(i) == block_virt(i) + xdma_chan.desc_nums[i] - 1

\* C12: after a pass of xdma_xfer_start the last descriptor of a used block
\* i that is followed by a used block i+1 carries the bus address of block
\* i+1 as its next pointer and desc_num of block i+1 minus one as its
\* adjacency; the last descriptor of the chain carries STOPPED|COMPLETED and
\* a zero next pointer.
C12_BlocksLinked ==
    (Len(xdma_trace.passes) >= 1 /\ Len(xdma_trace.filled) > 0)
        => /\ \A i \in UsedBlocks :
                  (i + 1) \in UsedBlocks
                      => LET d == xdma_chan.descs[LastOfBlock(i)]
                         IN  /\ Join64(d.next_lo, d.next_hi) = block_dma_addr(i + 1)
                             /\ d.control.adj = xdma_chan.desc_nums[i + 1] - 1
           /\ LET last == xdma_chan.descs[xdma_trace.filled[Len(xdma_trace.filled)]]
              IN  /\ Flagged(last)
                  /\ Join64(last.next_lo, last.next_hi) = 0

(***************************************************************************)
(* Properties of the amdmqdma context programming.                         *)
(***************************************************************************)
\* the callers between spin_lock and spin_unlock of hw_prg_lock
InCtxtWrite(t) == qdma_th[t].pc \in {"write", "poll", "delay", "final", "unlock"}

\* the accesses of caller t, in the order they reached the device
AccessesOf(t) == SelectSeq(qdma_log, LAMBDA a : a.t = t)

\* C13: context writes are totally serialized: at most one caller is between
\* taking and releasing hw_prg_lock, and the register accesses of one
\* context write (its 17 writes and its polls) are never interleaved with
\* those of another
C13_ContextWritesSerialized ==
    /\ \A t1, t2 \in CtxtCallers : (InCtxtWrite(t1) /\ InCtxtWrite(t2)) => t1 = t2
    /\ \A j \in 2 .. Len(qdma_log) :
           qdma_log[j].t # qdma_log[j - 1].t
               => \A i \in 1 .. j - 1 : qdma_log[i].t # qdma_log[j].t

C13_Witness ==
    /\ \A t \in CtxtCallers : qdma_th[t].pc = "done"
    /\ \A t \in CtxtCallers : Len(AccessesOf(t)) > NumCtxtWrites
    /\ qdma_log[1].t # QdmaCaller

\* C14: a context write whose poll of the BUSY bit never saw it clear returns
\* -QDMA_ERR_HWACC_BUSY_TIMEOUT, one whose poll saw it clear returns
\* QDMA_SUCCESS, and on either return hw_prg_lock is no longer held: when no
\* caller is inside a context write the lock is free for the next one
C14_TimeoutReleasesLock ==
    /\ \A t \in CtxtCallers :
           qdma_th[t].pc = "done"
               => /\ qdev.hw_prg_lock # t
                  /\ qdma_th[t].first_match = 0
                         => qdma_th[t].ret = -QDMA_ERR_HWACC_BUSY_TIMEOUT
                  /\ qdma_th[t].first_match # 0 => qdma_th[t].ret = QDMA_SUCCESS
    /\ (\A t \in CtxtCallers : ~InCtxtWrite(t)) => qdev.hw_prg_lock = 0

C14_Witness ==
    \E t1, t2 \in CtxtCallers :
        /\ qdma_th[t1].pc = "done"
        /\ qdma_th[t1].ret = -QDMA_ERR_HWACC_BUSY_TIMEOUT
        /\ qdma_th[t2].pc = "done"
        /\ qdma_th[t2].ret = QDMA_SUCCESS
        /\ qdma_log[1].t = t1
        /\ qdma_log[Len(qdma_log)].t = t2

\* the command word the shifts of mqdma-hw.h describe, BUSY clear
IndCtxtCmdWord(qid, op, sel) ==
    qid * 2 ^ IND_CTXT_CMD_QID_SHIFT + op * 2 ^ IND_CTXT_CMD_OP_SHIFT
        + sel * 2 ^ IND_CTXT_CMD_SEL_SHIFT

CmdWrites == {i \in 1 .. Len(qdma_log) :
                 qdma_log[i].op = "w" /\ qdma_log[i].reg = QDMA_REG_IND_CTXT_CMD}

\* C15: the word written to the command register encodes OP = WRITE, SEL =
\* the selector of the call and QID = the function id of the call, with the
\* BUSY bit clear
C15_CommandWordEncoded ==
    \A i \in CmdWrites :
        qdma_log[i].val = IndCtxtCmdWord(qdma_th[qdma_log[i].t].func_id, QDMA_CTXT_CMD_WR,
                                         qdma_th[qdma_log[i].t].sel)

\* the addresses of data register k and of mask register k of the window
DataReg(k) == QDMA_REG_IND_CTXT_DATA_BASE + k * sizeof_u32
MaskReg(k) == QDMA_REG_IND_CTXT_MASK_BASE + k * sizeof_u32

\* the writes of an fmap context write (direct, or from qdma_init)
FmapWrites == {i \in 1 .. Len(qdma_log) :
                  qdma_log[i].op = "w" /\ qdma_th[qdma_log[i].t].call \in {"fmap", "init"}}

\* C16: an fmap context write puts qbase into data word 0 (bits 10:0) and
\* qmax into data word 1 (bits 11:0), for a qbase and a qmax that fit their
\* fields
C16_FmapWordsCarryConfig ==
    \A i \in FmapWrites :
        LET config == qdma_th[qdma_log[i].t].config
        IN  /\ (qdma_log[i].reg = DataReg(0)
                    /\ config.qbase <= QDMA_CPM5_FMAP_CTXT_W0_QID_MASK)
                   => qdma_log[i].val = config.qbase
            /\ (qdma_log[i].reg = DataReg(1)
                    /\ config.qmax <= QDMA_CPM5_FMAP_CTXT_W1_QID_MAX_MASK)
                   => qdma_log[i].val = config.qmax

DataRegIdx == 0 .. QDMA_IND_CTXT_DATA_NUM_REGS - 1

\* the values caller t has written to register reg
Written(t, reg) == {qdma_log[i].val : i \in {j \in 1 .. Len(qdma_log) :
                       qdma_log[j].t = t /\ qdma_log[j].op = "w" /\ qdma_log[j].reg = reg}}

\* caller t is past the loop of register writes
WindowWritten(t) ==
    \/ qdma_th[t].call # "monitor"
           /\ qdma_th[t].pc \in {"poll", "delay", "final", "unlock", "init_ret"}
    \/ qdma_th[t].call = "ctxt" /\ qdma_th[t].pc = "done"

\* C17: for a context write with 0 <= cnt <= 8, data register k receives
\* data[k] for k < cnt and 0 for cnt <= k < 8, and each of the 8 mask
\* registers receives the all-ones word
C17_DataZeroFilledMasksAllOnes ==
    \A t \in CtxtCallers :
        (WindowWritten(t) /\ qdma_th[t].cnt \in CtxtCounts)
            => \A k \in DataRegIdx :
                   /\ Written(t, DataReg(k)) =
                          {IF k < qdma_th[t].cnt THEN qdma_th[t].data[k] ELSE 0}
                   /\ Written(t, MaskReg(k)) = {U32_MAX}

C17_Witness ==
    \E t \in CtxtCallers :
        /\ qdma_th[t].pc = "done"
        /\ qdma_th[t].call = "ctxt"
        /\ qdma_th[t].cnt = 3
        /\ qdma_th[t].data[3] # 0
        /\ Written(t, DataReg(2)) = {qdma_th[t].data[2]}
        /\ Written(t, DataReg(3)) = {0}

\* the accesses of caller t to the context window: data, mask and command
\* registers
WindowAccessesOf(t) ==
    SelectSeq(qdma_log, LAMBDA a : a.t = t /\ a.reg >= QDMA_REG_IND_CTXT_DATA_BASE
                                           /\ a.reg <= QDMA_REG_IND_CTXT_CMD)

IsCmdWrite(a) == a.op = "w" /\ a.reg = QDMA_REG_IND_CTXT_CMD

\* C18: within one context write all 8 data and all 8 mask registers are
\* written before the command register, the command register is written
\* exactly once and as the last write, and the poll of the BUSY bit starts
\* only after the command write
C18_CommandWrittenLast ==
    \A t \in CtxtCallers :
        LET s == WindowAccessesOf(t)
        IN  /\ \A p \in 1 .. Len(s) :
                   /\ IsCmdWrite(s[p])
                          => /\ {s[q].reg : q \in 1 .. p - 1} =
                                    {DataReg(k) : k \in DataRegIdx}
                                        \cup {MaskReg(k) : k \in DataRegIdx}
                             /\ \A q \in 1 .. Len(s) :
                                    /\ IsCmdWrite(s[q]) => q = p
                                    /\ q > p => s[q].op = "r"
                   /\ s[p].op = "r" => \E q \in 1 .. p - 1 : IsCmdWrite(s[q])
            /\ WindowWritten(t) => \E p \in 1 .. Len(s) : IsCmdWrite(s[p])

C18_Witness ==
    \E t \in CtxtCallers :
        LET s == WindowAccessesOf(t)
        IN  /\ qdma_th[t].pc = "done"
            /\ qdma_th[t].reads >= 2
            /\ Len(s) = NumCtxtWrites + qdma_th[t].reads
            /\ IsCmdWrite(s[NumCtxtWrites])
            /\ s[Len(s)].op = "r"

\* caller t has entered hw_monitor_reg (the defaults are applied on entry)
InMonitor(t) == qdma_th[t].interval_us > 0

\* hw_monitor_reg of caller t has returned
MonitorReturned(t) ==
    InMonitor(t) /\ qdma_th[t].pc \in {"unlock", "init_ret", "done"}

\* C19: hw_monitor_reg reads the register at most
\* floor(timeout_us / interval_us) + 1 times (defaults in place of a zero
\* interval or timeout), returns QDMA_SUCCESS at the first read with
\* (v & mask) = val and -QDMA_ERR_HWACC_BUSY_TIMEOUT when no read matched
C19_PollBounded ==
    \A t \in CtxtCallers :
        /\ InMonitor(t)
               => qdma_th[t].reads <= (qdma_th[t].timeout_us \div qdma_th[t].interval_us) + 1
        /\ MonitorReturned(t)
               => /\ qdma_th[t].first_match # 0
                         => /\ qdma_th[t].mon_ret = QDMA_SUCCESS
                            /\ qdma_th[t].reads = qdma_th[t].first_match
                  /\ qdma_th[t].first_match = 0
                         => qdma_th[t].mon_ret = -QDMA_ERR_HWACC_BUSY_TIMEOUT

\* C20: when qdma_fmap_conf returned an error inside set_initial_regs,
\* qdma_init returns a non-zero value and has not allocated the queue rings
C20_InitFailsOnFmapError ==
    \A t \in CtxtCallers :
        (qdma_th[t].call = "init" /\ qdma_th[t].pc = "done" /\ qdma_th[t].fmap_err # 0)
            => /\ qdma_th[t].ret # 0
               /\ qdev.h2c_ring # "allocated"
               /\ qdev.c2h_ring # "allocated"

(***************************************************************************)
(* Properties of the submit loop after a timeout, of discovery and of the  *)
(* handlers of the dmaengine driver.                                       *)
(***************************************************************************)
\* the caller is waiting for a pass that it started after an earlier pass of
\* the same request had timed out
PassAfterTimeout(t) == th[t].g_timeout /\ th[t].pc = "wait"

\* C24: after a pass of xdma_request_submit has timed out, no further
\* hardware pass is started for that request.
C24_TimeoutStopsPasses == \A t \in Callers : ~PassAfterTimeout(t)

\* the step is the return of wait_for_completion_timeout of caller t on a
\* signalled completion
ConsumesSignal(t) ==
    /\ th[t].pc = "wait"
    /\ th'[t].pc = "count"
    /\ channels'[th[t].channel_index].req_compl
          < channels[th[t].channel_index].req_compl

\* C30: a wait of xdma_request_submit is woken by a completion signal only
\* when the engine has raised the interrupt of the pass that is waited for.
C30_SignalOfOwnPass ==
    [][\A t \in Callers : ConsumesSignal(t) => hw[th[t].channel_index].fired]_vars

\* C28: with the channel ids of each direction being 0..N-1, a call of
\* xdma_acquire_channel that has taken a permit finds a free bit: no call
\* returns -ENOENT, whatever the interleaving of acquires and releases.
C28_PermitFindsBit ==
    \A t \in Callers :
        /\ th[t].result # -ENOENT
        /\ th[t].pc = "scan" =>
              \E ci \in th[t].ci .. (chan_info[th[t].dir].channel_num - 1) :
                  test_bit(ci, chan_info[th[t].dir].channel_bitmap)

\* a caller with a permit has stepped over bit 0, which was clear then and
\* has been set back by a release since, and goes on scanning
C28_Witness ==
    \E t \in Callers :
        /\ th[t].pc = "scan"
        /\ th[t].dir = H2C
        /\ th[t].ci > 0
        /\ test_bit(0, chan_info[H2C].channel_bitmap)

\* xdma_init_channels returned 0 on windows with channels of both directions
Discovered == Probed /\ \A d \in Dirs : chan_info[d].channel_num > 0

\* the indices that xdma_acquire_channel can return for a direction
IndicesOf(d) ==
    chan_info[d].start_index .. (chan_info[d].start_index + chan_info[d].channel_num - 1)

\* C21: after discovery, whatever the identifiers of the windows, the
\* channels of indices 0..h2c.channel_num-1 are H2C channels and those from
\* c2h.start_index on are C2H channels, and a channel that
\* xdma_acquire_channel(direction) has returned is of that direction.
C21_BlocksByDirection ==
    Discovered =>
        /\ chan_info[H2C].start_index = 0
        /\ \A d \in Dirs : \A c \in IndicesOf(d) : channels[c].type = d
        /\ \A t \in Callers : HoldsChannel(t) => channels[th[t].channel_index].type = th[t].dir

\* C22: when discovery finds no H2C channel or no C2H channel,
\* xdma_init_channels returns a non-zero error.
C22_NoChannelIsError ==
    (xdma_init.done /\ \E d \in Dirs : chan_info[d].channel_num = 0)
        => xdma_init.ret # 0

\* the registers of the writes of the last call of xdma_xfer_start
WrittenRegs == [k \in 1 .. Len(xdma_trace.writes) |-> xdma_trace.writes[k].reg]

\* the order of the register writes of a pass
PassWriteOrder == <<"control_w1c", "desc_lo", "desc_hi", "desc_adj", "control">>

\* the last call of xdma_xfer_start started a pass
PassStarted == xdma_trace.started # << >> /\ xdma_trace.ret = 0

\* C25: the register writes of a call of xdma_xfer_start are, in this order,
\* the control W1C register (RUN cleared), descriptor low, descriptor high,
\* adjacency, control = CHAN_CTRL_START; a call that starts a pass makes all
\* of them; no write of a descriptor pointer, of the adjacency or of START
\* finds the RUN bit set.
C25_WriteOrder ==
    /\ Len(WrittenRegs) <= Len(PassWriteOrder)
    /\ WrittenRegs = SubSeq(PassWriteOrder, 1, Len(WrittenRegs))
    /\ PassStarted => WrittenRegs = PassWriteOrder
    /\ \A k \in 1 .. Len(xdma_trace.writes) :
          LET w == xdma_trace.writes[k]
          IN  /\ w.reg = "control_w1c" => w.val = CHAN_CTRL_RUN_STOP
              /\ w.reg = "control" => w.val = CHAN_CTRL_START
              /\ w.reg # "control_w1c" => ~w.run

\* a continuation pass has been started: its first write found the RUN bit
\* set by the pass before
C25_Witness ==
    /\ PassStarted
    /\ Len(xdma_trace.started) >= 2
    /\ WrittenRegs = PassWriteOrder
    /\ xdma_trace.writes[1].run

\* the step is a call of xdma_xfer_start
XferStartCalled == xdma_trace'.call # xdma_trace.call

\* the request at the head of the issued list when xdma_xfer_start is called
\* in this state (vchan_issue_pending has moved the submitted requests)
HeadRequest == (xdma_chan.issued \o xdma_chan.submitted)[1]

RequestInFlight ==
    /\ \E k \in 1 .. Len(xdma_trace.started) : xdma_trace.started[k]
    /\ xdma_chan.completed = 0

\* the engine runs a pass whose completion interrupt has not been handled
PassInFlight == xdma_regs.run /\ ~xdma_regs.fired

\* C27 as stated: busy is true from the start of the first pass of a request
\* to the completion interrupt after which nothing remains to resubmit.
C27_BusyWholeRequest == RequestInFlight => xdma_chan.busy

\* C27 amended: busy is true exactly while a pass is in flight: the start of
\* a pass (first or continuation) sets it and every completion interrupt
\* clears it, also when the request has more to transfer; it is true again
\* once the tasklet or xdma_issue_pending has started the next pass.
C27_BusyWhilePassInFlight == xdma_chan.busy <=> PassInFlight

\* between two passes of a request: the interrupt of one pass has cleared
\* busy and scheduled the tasklet
C27_Witness ==
    /\ RequestInFlight
    /\ xdma_chan.tasklet
    /\ ~xdma_chan.busy
    /\ xdma_regs.fired

\* passes that have been started, and completion interrupts that the handler
\* has served
PassesStarted == Cardinality({k \in 1 .. Len(xdma_trace.started) : xdma_trace.started[k]})
InterruptsServed == PassesStarted - (IF PassInFlight THEN 1 ELSE 0)

\* the passes a list needs: the channel holds XDMA_DESC_NUM descriptors
PassesNeeded(sgl) ==
    IF Demand(sgl) = 0 THEN 1 ELSE CeilDiv(Demand(sgl), XDMA_DESC_NUM)

\* no register write has failed
NoRegFault == reg_faults = MaxRegFaults

\* C23: a request that needs K passes is completed once, at the K-th
\* completion interrupt and not earlier, and no more than K passes are
\* started for it.
C23_CompletedAtLastInterrupt ==
    (xdma_trace.prepared /\ NoRegFault) =>
        LET K == PassesNeeded(xdma_trace.sgl)
        IN  /\ xdma_chan.completed <= 1
            /\ PassesStarted <= K
            /\ xdma_chan.completed = 1 => InterruptsServed = K
            /\ InterruptsServed >= K => xdma_chan.completed = 1

\* C29: xdma_channel_isr, once entered, acquires vchan.lock and returns, on
\* whichever processor the completion interrupt is taken.
C29_IsrReturns == InContext("isr") ~> ~InContext("isr")

(***************************************************************************)
(*   SpecQueue: several requests on one dmaengine channel.  A client may   *)
(* prepare and submit a request while an earlier one is running; the       *)
(* engine raises one interrupt for every pass that was started, and the    *)
(* tasklet runs whenever the interrupt handler scheduled it.               *)
(***************************************************************************)
MaxRequests == 2

\* lists whose segments all carry data
DataLists == {sgl \in SgLists \ {<< >>} : \A k \in 1 .. Len(sgl) : sgl[k].len > 0}

\* the requests of the channel so far: submitted, issued or completed
RequestsMade == Len(xdma_chan.submitted) + Len(xdma_chan.issued) + xdma_chan.completed

\* xdma_prep_slave_sg and vchan_tx_submit of a further request
PrepSubmitNext(sgl) ==
    /\ xdma_trace.prepared
    /\ RequestsMade < MaxRequests
    /\ xdma_chan' = [xdma_chan EXCEPT !.submitted =
                        Append(@, [dir |-> xdma_chan.dir, slave_addr |-> xdma_chan.cfg_addr,
                                   sgl |-> sgl, sg |-> 1, sg_off |-> 0,
                                   nents |-> Len(sgl)])]
    /\ UNCHANGED <<xdma_regs, xdma_trace>>
    /\ UNCHANGED <<xleafVars, qdmaVars, xdma_init, xdma_ctx, libVars>>

InitQueue == InitXleaf(Submitters) /\ InitDma /\ InitQdma /\ InitLib

NextQueue ==
    \/ \E sgl \in DataLists : PrepSubmit(sgl, xdma_chan.dir)
    \/ \E sgl \in DataLists : PrepSubmitNext(sgl)
    \/ IssuePending(0, -1, FALSE)
    \/ ChannelIsr
    \/ TaskletEnter
    \/ TaskletLock
    \/ TaskletLocked(0, -1, FALSE)
    \/ TaskletUnlock

\* the steps of a scheduled tasklet
TaskletSteps == TaskletEnter \/ TaskletLock \/ Proceeds("tasklet") \/ TaskletUnlock

\* the interrupt of a started pass arrives, and a scheduled tasklet runs
SpecQueue ==
    /\ InitQueue
    /\ [][NextQueue]_vars
    /\ WF_vars(ChannelIsr)
    /\ WF_xdma_ctx(TaskletSteps)

\* the n-th request of the channel has reached the issued list / is complete
IssuedUpTo(n) == Len(xdma_chan.issued) + xdma_chan.completed >= n
CompletedUpTo(n) == xdma_chan.completed >= n

\* C31: every request that xdma_issue_pending moved to the issued list is
\* eventually completed, also one issued while an earlier request was
\* running, with no further call of xdma_issue_pending
C31_IssuedCompletes ==
    \A n \in 1 .. MaxRequests : IssuedUpTo(n) ~> CompletedUpTo(n)

\* a request waits on the issued list of an idle channel whose engine owes
\* no interrupt and whose tasklet is not scheduled
C31_Stranded ==
    /\ Len(xdma_chan.issued) > 0
    /\ ~xdma_chan.busy
    /\ ~xdma_chan.tasklet
    /\ xdma_regs.fired

(***************************************************************************)
(*   SpecSgLen: xdma_prep_slave_sg with sg_len up to the length of the     *)
(* scatterlist; the list keeps its own end mark, which is what sg_next     *)
(* follows.                                                                *)
(***************************************************************************)
\* xdma_prep_slave_sg(chan, sgl, sg_len, dir, ...) and vchan_tx_submit
PrepSubmitLen(sgl, sg_len, dir) ==
    /\ ~xdma_trace.prepared
    /\ xdma_chan' = [xdma_chan EXCEPT !.submitted =
                        Append(@, [dir |-> dir, slave_addr |-> xdma_chan.cfg_addr,
                                   sgl |-> sgl, sg |-> 1, sg_off |-> 0,
                                   nents |-> sg_len])]
    /\ xdma_trace' = [xdma_trace EXCEPT !.prepared = TRUE, !.sgl = sgl, !.sg_len = sg_len]
    /\ UNCHANGED xdma_regs
    /\ UNCHANGED <<xleafVars, qdmaVars, xdma_init, xdma_ctx, libVars>>

InitSgLen == InitXleaf(Submitters) /\ InitDma /\ InitQdma /\ InitLib

\* calls of xdma_xfer_start that are followed
MaxPasses == 3

NextSgLen ==
    \/ \E sgl \in SgLists \ {<< >>} : \E sg_len \in 1 .. Len(sgl) :
          PrepSubmitLen(sgl, sg_len, xdma_chan.dir)
    \/ /\ Len(xdma_trace.passes) < MaxPasses
       /\ \E stray \in StrayChoices(IssuedChan) : \E wrap \in WrapChoices(IssuedChan) :
             IssuePending(0, stray, wrap)
    \/ ChannelIsr
    \/ /\ Len(xdma_trace.passes) < MaxPasses
       /\ \E stray \in StrayChoices(TaskletChan) : \E wrap \in WrapChoices(TaskletChan) :
             ChannelTasklet(0, stray, wrap)

SpecSgLen == InitSgLen /\ [][NextSgLen]_vars

\* the segments handed to xdma_prep_slave_sg: the first sg_len of the list
GivenSegments == SubSeq(xdma_trace.sgl, 1, xdma_trace.sg_len)

\* C32: over all passes of a request xdma_xfer_start consumes at most the
\* sg_len segments given to xdma_prep_slave_sg: req->nents never leaves
\* 0..sg_len, and the descriptors written describe pieces of the first
\* sg_len segments only, also when the scatterlist is longer.
C32_WithinSgLen ==
    xdma_trace.prepared =>
        /\ \A k \in 1 .. Len(xdma_chan.issued) :
               xdma_chan.issued[k].nents \in 0 .. xdma_trace.sg_len
        /\ IsPrefix(HostPairs(xdma_chan.dir, Flatten(xdma_trace.passes)),
                    Chop(GivenSegments))

\* with sg_len equal to the length of the list the request stays within it
C32_WholeListWithin == (xdma_trace.sg_len = Len(xdma_trace.sgl)) => C32_WithinSgLen

\* a request whose segments all carry data
C32_DataListWithin == (xdma_trace.sgl \in DataLists) => C32_WithinSgLen

\* the last call of xdma_xfer_start built a pass and started the engine
LastPassStarted ==
    /\ Len(xdma_trace.started) > 0
    /\ xdma_trace.started[Len(xdma_trace.started)]
    /\ xdma_regs.run

\* C33: every pass that xdma_xfer_start starts contains a descriptor: block
\* 0 holds at least one, the adjacency register holds a value of
\* 0..XDMA_DESC_ADJACENT-1, and STOPPED|COMPLETED is on a descriptor filled
\* in this pass; also for lists that consist of or end in zero-length
\* segments.
C33_PassHasDescriptor ==
    LastPassStarted =>
        /\ Len(xdma_trace.filled) >= 1
        /\ xdma_chan.desc_nums[0] >= 1
        /\ xdma_regs.adj \in 0 .. (XDMA_DESC_ADJACENT - 1)
        /\ \E k \in 1 .. Len(xdma_trace.filled) : Flagged(xdma_chan.descs[xdma_trace.filled[k]])

\* a request whose segments all carry data
C33_DataListPasses == (xdma_trace.sgl \in DataLists) => C33_PassHasDescriptor

(***************************************************************************)
(* Properties of the descriptor ring of the xleaf driver.                  *)
(***************************************************************************)
\* the control words of a ring
ControlWords(descs) == [d \in DOMAIN descs |-> descs[d].control]

\* no caller is between xrt_xdma_start and xdma_desc_clear_last on channel c
BetweenPasses(c) ==
    \A t \in Callers :
        th[t].pc \in {"wait", "count", "passend"} => th[t].channel_index # c

\* C34: for every n in 1..XRT_DESC_NUM, xdma_desc_set_last(n) followed by
\* xdma_desc_clear_last(n) leaves every control word of the ring as
\* xdma_alloc_channel_resource wrote it; between passes no descriptor
\* carries STOPPED or COMPLETED and every block-end descriptor encodes the
\* adjacency XDMA_DESC_ADJACENT.
C34_RingRestored ==
    \A c \in ChanIdx :
        BetweenPasses(c) =>
            /\ ControlWords(channels[c].descs) =
                   ControlWords(xdma_alloc_channel_resource(c))
            /\ \A n \in 1 .. XRT_DESC_NUM :
                   ControlWords(xdma_desc_clear_last(
                                    xdma_desc_set_last(channels[c].descs, n), n)) =
                       ControlWords(xdma_alloc_channel_resource(c))

\* a pass that ended inside a block behind the first one has been cleared:
\* xdma_desc_set_last had rewritten the end descriptor of the block before
C34_Witness ==
    \E t \in Callers :
        /\ th[t].pc = "release"
        /\ th[t].g_acquired
        /\ BetweenPasses(th[t].g_channel)
        /\ channels[th[t].g_channel].submitted_desc_count > XDMA_DESC_ADJACENT
        /\ AdjacentOf(channels[th[t].g_channel].submitted_desc_count) > 0
        /\ \E d \in 0 .. (XRT_DESC_NUM - 1) : channels[th[t].g_channel].descs[d].bytes > 0

(***************************************************************************)
(*   SpecLife: the life of the channels of a leaf: xdma_init_channels on   *)
(* windows whose channels are found in the order of their ids, with the    *)
(* steps of xdma_probe_channel that can fail, calls of                     *)
(* xdma_acquire_channel and xdma_release_channel, and xrt_xdma_remove.     *)
(***************************************************************************)
MaxSetupFaults == 1

\* the failing step of every window: at most MaxSetupFaults windows fail
SetupFails ==
    {f \in [1 .. XDMA_MAX_CHANNEL_NUM -> SetupOutcomes] :
        Cardinality({w \in 1 .. XDMA_MAX_CHANNEL_NUM : f[w] # "none"}) <= MaxSetupFaults}

\* windows that give the H2C channels before the C2H channels, the ids of
\* each direction counting from 0
LifeWindowIds ==
    {ids \in WindowIds :
        LET r == init_channels(ids, FALSE, 0)
        IN  /\ \A d \in Dirs :
                  r.info[d].channel_bitmap = 0 .. (r.info[d].channel_num - 1)
            /\ \A c \in 0 .. (probe_index(r.info) - 1) :
                  r.chans[c].type = IF c < r.info[H2C].channel_num THEN H2C ELSE C2H}

InitLife == InitUnprobed(Submitters) /\ InitDma /\ InitQdma /\ InitLib

NextLife ==
    \/ \E ids \in LifeWindowIds : \E fails \in SetupFails :
          \E irq_fail \in BOOLEAN : \E uninit \in UninitRets :
             InitChannels(ids, fails, irq_fail, uninit)
    \/ \E t \in Submitters :
          /\ Probed
          /\ ~xdma_init.removed
          /\ \/ \E d \in Dirs : AcquireCall(t, d)
             \/ Down(t)
             \/ Scan(t, "held", "idle")
             \/ ReleaseCall(t)
             \/ ReleaseSetBit(t)
             \/ ReleaseUp(t, "idle")
    \/ Remove

SpecLife == InitLife /\ [][NextLife]_vars

\* descriptor memory allocated, registers programmed, handler registered,
\* completion initialised
FullyInitialised(r) ==
    /\ r.descs = "allocated"
    /\ r.regs = SetupRegs
    /\ r.irq
    /\ r.compl

\* C35: every channel that is counted in h2c.channel_num or c2h.channel_num
\* and has its bit in the bitmap of free channels is fully initialised,
\* whichever step of xdma_probe_channel failed for any window.
C35_CountedChannelsInitialised ==
    (Discovered /\ ~xdma_init.removed) =>
        \A d \in Dirs : \A b \in chan_info[d].channel_bitmap :
            b < chan_info[d].channel_num
                => FullyInitialised(xdma_init.res[chan_info[d].start_index + b])

\* when no step of xdma_probe_channel fails the counted channels are
\* initialised
C35_NoFailureInitialised ==
    (\A c \in 0 .. (probe_index(chan_info) - 1) :
        xdma_init.res[c].frees = 0 /\ xdma_init.res[c].descs # "null")
        => C35_CountedChannelsInitialised

\* C36: the descriptor memory of a channel is freed at most once over the
\* life of the channel, for every sequence of a failure in
\* xdma_probe_channel, a failure of xdma_init_channels
\* (xdma_cleanup_channel_all) and xrt_xdma_remove.
C36_FreedAtMostOnce == \A c \in ChanIdx : xdma_init.res[c].frees <= 1

\* when no step of xdma_probe_channel failed (init_completion has run for
\* every counted channel) and both directions have channels, no memory is
\* freed twice
C36_NoSetupFailureFreedOnce ==
    (\A d \in Dirs : chan_info[d].channel_num > 0
                      /\ \A c \in 0 .. (probe_index(chan_info) - 1) : xdma_init.res[c].compl)
        => C36_FreedAtMostOnce

(***************************************************************************)
(*   SpecVec: xdma_set_vector_reg on every choice of its arguments.        *)
(***************************************************************************)
InitVec ==
    /\ InitXleaf(Submitters) /\ InitDma /\ InitQdma
    /\ xdma_vec \in VecCalls
    /\ xg = GrpIdle
    /\ spool = PoolIdle

NextVec == \E fail \in 0 .. (MaxIrqNum \div 4) : SetVectorReg(fail)

SpecVec == InitVec /\ [][NextVec]_vars

\* byte b of a register value
ByteOf(val, b) == (val \div 2 ^ (XDMA_IRQ_VEC_SHIFT * b)) % 2 ^ XDMA_IRQ_VEC_SHIFT

\* the call wrote the vector field of interrupt k of its range
VectorWritten(k) ==
    \E n \in 1 .. Len(xdma_vec.writes) :
        /\ xdma_vec.writes[n].reg = xdma_vec.vec_tbl_start + sizeof_u32 * (k \div 4)
        /\ ByteOf(xdma_vec.writes[n].val, k % 4) = xdma_vec.irq_start + k

\* C37: after xdma_set_vector_reg has returned 0, for every k < irq_num
\* byte k mod 4 of the register at vec_tbl_start + 4 * (k div 4) has been
\* written with irq_start + k, also when irq_num is not a multiple of 4.
C37_EveryVectorWritten ==
    (xdma_vec.called /\ xdma_vec.ret = 0) =>
        \A k \in 0 .. (xdma_vec.irq_num - 1) : VectorWritten(k)

\* the fields of the registers that the range fills completely are written
C37_WholeRegistersWritten ==
    (xdma_vec.called /\ xdma_vec.ret = 0) =>
        \A k \in 0 .. (xdma_vec.irq_num - (xdma_vec.irq_num % 4) - 1) : VectorWritten(k)

(***************************************************************************)
(*   SpecGrp: NumGrpCallers callers of XRT_GROUP_INIT_CHILDREN and         *)
(* XRT_GROUP_FINI_CHILDREN on one group.  A caller that waits for the      *)
(* mutex gets it when it is free again and again, and a caller that holds  *)
(* it goes on to its return.                                               *)
(***************************************************************************)
InitGrp == InitXleaf(Submitters) /\ InitDma /\ InitQdma /\ InitLib

NextGrp ==
    \E t \in GrpCallers :
        \/ \E cmd \in {XRT_GROUP_INIT_CHILDREN, XRT_GROUP_FINI_CHILDREN} :
              \E pdata \in BOOLEAN : GrpCall(t, cmd, pdata)
        \/ GrpLock(t)
        \/ \E dtb \in BOOLEAN : \E unflattened \in BOOLEAN : \E failed \in BOOLEAN :
              GrpCreateLeaves(t, dtb, unflattened, failed)
        \/ GrpRemoveLeaves(t)

\* the steps of caller t behind mutex_lock
GrpLocked(t) ==
    \/ \E dtb \in BOOLEAN : \E unflattened \in BOOLEAN : \E failed \in BOOLEAN :
          GrpCreateLeaves(t, dtb, unflattened, failed)
    \/ GrpRemoveLeaves(t)

SpecGrp ==
    /\ InitGrp
    /\ [][NextGrp]_vars
    /\ \A t \in GrpCallers : SF_vars(GrpLock(t)) /\ WF_vars(GrpLocked(t))

\* C38: xrt_grp_create_leaves releases the group mutex on every return
\* path: a caller that has returned from the leaf call does not own
\* xg->lock.
C38_MutexReleasedOnReturn ==
    \A t \in GrpCallers : xg.pc[t] = "idle" => xg.lock # t

\* a later XRT_GROUP_INIT_CHILDREN or XRT_GROUP_FINI_CHILDREN call does not
\* block forever in mutex_lock
C38_LaterCallProceeds ==
    \A t \in GrpCallers : (xg.pc[t] = "lock") ~> (xg.pc[t] # "lock")

\* every return path but the one of the unflatten failure releases the mutex
C38_OtherPathsRelease ==
    \A t \in GrpCallers :
        (xg.pc[t] = "idle" /\ xg.lock = t)
            => xg.cmd[t] = XRT_GROUP_INIT_CHILDREN /\ xg.ret[t] = -EINVAL

(***************************************************************************)
(*   SpecSubdevPool: NumPoolCallers callers of xrt_subdev_pool_add, _del,  *)
(* _get, _put and _fini on one pool of NumSubdevs subdevs.                 *)
(***************************************************************************)
InitSubdevPool == InitXleaf(Submitters) /\ InitDma /\ InitQdma /\ InitLib

NextSubdevPool ==
    \E t \in PoolCallers :
        \/ \E op \in PoolOps : \E s \in Subdevs : PoolCall(t, op, s)
        \/ PoolLock(t)
        \/ \E stolen \in BOOLEAN : \E freed_empty \in BOOLEAN :
              PoolLocked(t, stolen, freed_empty)
        \/ \E stolen \in BOOLEAN : \E freed_empty \in BOOLEAN :
              PoolFiniLoop(t, stolen, freed_empty)
        \/ \E killed \in BOOLEAN : PoolWait(t, killed)
        \/ \E stolen \in BOOLEAN : \E freed_empty \in BOOLEAN :
              PoolRelocked(t, stolen, freed_empty)

SpecSubdevPool == InitSubdevPool /\ [][NextSubdevPool]_vars

\* C39: the subdev pool lock is balanced: xrt_subdev_pool_fini and
\* xrt_subdev_pool_del never unlock xsp_lock when they do not hold it, and
\* a caller that has returned from them does not hold it, also when
\* xrt_subdev_pool_wait_for_holders had to wait for a holder.
C39_LockBalanced ==
    /\ spool.unheld \cap {"fini", "del"} = {}
    /\ \A t \in PoolCallers :
          (spool.pc[t] = "idle" /\ spool.op[t] \in {"fini", "del"})
              => spool.xsp_lock # t

\* until xrt_subdev_pool_fini has set xsp_closing, the lock is balanced in
\* every function of the pool
C39_BalancedBeforeFini ==
    ~spool.xsp_closing =>
        /\ spool.unheld = {}
        /\ \A t \in PoolCallers : spool.pc[t] = "idle" => spool.xsp_lock # t

\* xrt_subdev_pool_del has waited for a holder and has returned
C39_DelWaited ==
    \E t \in PoolCallers :
        /\ spool.op[t] = "del"
        /\ spool.pc[t] = "idle"
        /\ spool.rc[t] = -ERESTARTSYS
        /\ ~InDevList(spool, spool.sdev[t])

\* a caller that has returned from xrt_subdev_pool_fini or
\* xrt_subdev_pool_del does not hold xsp_lock
C39_ReleasedOnReturn ==
    \A t \in PoolCallers :
        (spool.pc[t] = "idle" /\ spool.op[t] \in {"fini", "del"})
            => spool.xsp_lock # t
====
